---- MODULE Spec2Model ----
(***************************************************************************)
(* Order lifecycle, refund lifecycle and restaurant open/close scheduler   *)
(* of the food-delivery backend (golang-backend-skorpion).                 *)
(*                                                                         *)
(* The specifications share the variables:                                 *)
(*   Spec      - orders, payments, refunds, carrier deliveries; every      *)
(*               handler is one atomic action.                             *)
(*   TableSpec - the two transition tables applied to pairs of strings.    *)
(*   RaceSpec  - OrderService.UpdateOrderStatus split into its read        *)
(*               (GetByID) and its write (Save), for racing requests.      *)
(*   SchedSpec - the restaurant table and the scheduler tick; TickSpec is  *)
(*               SchedSpec over tables of active restaurants.              *)
(*   ShopSpec  - one restaurant under ticks, ForceStatusUpdate and         *)
(*               UpdateShopStatus.                                         *)
(*   CacheSpec - one restaurant under ticks and the cached reads.          *)
(*   CronSpec  - Start, Stop and the goroutines of the scheduler;          *)
(*               FairCronSpec adds the fairness of their returns.          *)
(*   StartSpec - two Start calls that arrive together, taken as their      *)
(*               read and their write of isRunning.                        *)
(*   EvalSpec  - the open-or-closed evaluators applied to one restaurant   *)
(*               and one instant.                                          *)
(*   TimingSpec - one restaurant under the vendor's updates and a tick     *)
(*               taken as its database round trips.                        *)
(*   CoherenceSpec - one restaurant under the vendor's updates and the     *)
(*               cached read of its timing.                                *)
(*   HookSpec  - carrier webhooks that arrive together, taken as their     *)
(*               steps, and the reassignment goroutines they start.        *)
(*   ProductSpec - the availability GetProductsByTimeAdvanced reports for  *)
(*               one product.                                              *)
(***************************************************************************)
EXTENDS Integers, Sequences, FiniteSets, TLC

(***************************************************************************)
(* Bounds of the model.                                                    *)
(***************************************************************************)
\* order_logs entries an order may hold before appending operations are cut off
MaxLogs == 1
\* concurrent UpdateOrderStatus requests in RaceSpec
NumRequests == 2
\* rows of the restaurants table in SchedSpec, TickSpec and CronSpec
NumRestaurants == 3
\* the page size of the scheduler's scan (limit := 100 in
\* updateAllRestaurantStatuses), scaled to the size of the modelled table
PageLimit == 1

\* claims are per order and per delivery row: one of each
OrderIds == {"o1"}
\* restaurants whose staff send status updates; orders are placed at the first
RestaurantIds == {"r1", "r2"}
OrderRestaurantIds == {"r1"}
RequestIds == 1..NumRequests
DeliveryIds == {"d1"}

(***************************************************************************)
(* Vocabulary.                                                             *)
(***************************************************************************)
\* the statuses the code writes to orders.order_status
OrderStatuses ==
    {"pending", "pending_payment", "confirmed", "preparing", "dispatched",
     "delivered", "cancelled", "payment_failed"}
\* request bodies carry any non-empty string; "refunded" stands for a string
\* no table knows
RequestedStatuses == OrderStatuses \cup {"refunded"}
RefundStatuses == {"pending", "approved", "rejected", "processed", "failed"}
\* UpdateRefundStatusRequest.Status is bound oneof these
RequestedRefundStatuses == RefundStatuses
PorterStatuses ==
    {"order_accepted", "order_start_trip", "order_end_job", "order_cancel",
     "order_reopen", "order_other"}
RazorpayEvents == {"payment.captured", "payment.authorized", "payment.failed", "payment.other"}
PaymentWebhookStatuses == {"success", "completed", "failed", "cancelled", "processing"}

ErrInvalidTransition == "invalid status transition"

(***************************************************************************)
(* The status transition tables.                                           *)
(***************************************************************************)
\* OrderService.isValidStatusTransition's map literal
OrderValidTransitions ==
    [s \in {"pending", "confirmed", "preparing", "dispatched", "delivered", "cancelled"} |->
        CASE s = "pending"    -> {"confirmed", "cancelled"}
          [] s = "confirmed"  -> {"preparing", "cancelled"}
          [] s = "preparing"  -> {"dispatched", "cancelled"}
          [] s = "dispatched" -> {"delivered", "cancelled"}
          [] s = "delivered"  -> {}
          [] s = "cancelled"  -> {}]

OrderTableAllowsSelf(currentStatus, newStatus) ==
    /\ currentStatus \in DOMAIN OrderValidTransitions
    /\ newStatus \in OrderValidTransitions[currentStatus] \cup {currentStatus}

\* OrderService.isValidStatusTransition
OrderIsValidStatusTransition(currentStatus, newStatus) ==
    IF currentStatus \notin DOMAIN OrderValidTransitions
    THEN FALSE
    ELSE newStatus \in OrderValidTransitions[currentStatus]

\* the package-level isValidStatusTransition of refund_service.go: its map literal
RefundValidTransitions ==
    [s \in {"pending", "approved", "rejected", "processed", "failed"} |->
        CASE s = "pending"   -> {"approved", "rejected"}
          [] s = "approved"  -> {"processed", "failed"}
          [] s = "rejected"  -> {}
          [] s = "processed" -> {}
          [] s = "failed"    -> {"approved"}]

RefundTableReopensRejected(currentStatus, newStatus) ==
    \/ /\ currentStatus \in DOMAIN RefundValidTransitions
       /\ newStatus \in RefundValidTransitions[currentStatus]
    \/ currentStatus = "rejected" /\ newStatus = "approved"

\* isValidStatusTransition (refund_service.go)
RefundIsValidStatusTransition(currentStatus, newStatus) ==
    IF currentStatus \notin DOMAIN RefundValidTransitions
    THEN FALSE
    ELSE newStatus \in RefundValidTransitions[currentStatus]

(***************************************************************************)
(* State.                                                                  *)
(***************************************************************************)
VARIABLES
    orders,       \* orders table: OrderIds -> row
    payments,     \* payments table: one row per created order
    refunds,      \* refunds table: at most one row per order
    deliveries,   \* porter_deliveries table: one row slot per order
    tasks,        \* detached goroutines that end in CreateDeliveryOrder
    ret,          \* what the last handler returned and published
    requests,     \* the calls and goroutines between two of their steps
    restaurants,  \* SchedSpec: restaurants table, in the order Search returns it
    tick,         \* SchedSpec: the last scheduler tick
    probe,        \* TableSpec: the last transition-table lookup
    cache,        \* the Redis cache: key -> cached value
    cron          \* EnhancedCronService: isRunning, stopChan, its goroutines

vars == <<orders, payments, refunds, deliveries, tasks, ret, requests, restaurants, tick, probe,
          cache, cron>>
orderVars == <<orders, payments, refunds, deliveries, tasks, ret>>

NoOrder ==
    [life |-> "none", user_id |-> "", restaurant_id |-> "", cart_id |-> "",
     order_status |-> "", order_logs |-> <<>>]
\* payments.status is written by the webhooks and read by nothing modelled here
NoPayment == [exists |-> FALSE, razorpay |-> FALSE]
NoRefund == [exists |-> FALSE, status |-> "", admin_comment |-> "", processed |-> FALSE]
\* porter_deliveries.status mirrors the last webhook and is read by nothing modelled here
NoDelivery == [exists |-> FALSE, order_id |-> "", is_active |-> FALSE]
NoTask == [kind |-> "none", order |-> NoOrder]
NoRet == [op |-> "", err |-> "", events |-> <<>>]

Live(o) == orders[o].life = "live"

\* a handler's return: its error ("" for nil) and the Kafka messages it sent
Return(op, err) == [op |-> op, err |-> err, events |-> <<>>]

(***************************************************************************)
(* Repository operations.                                                  *)
(***************************************************************************)
\* orderRepository.Update: gorm Save writes every column of the row it is
\* given, and inserts the row when the UPDATE matches none
OrderRepoUpdate(o, row) == [orders EXCEPT ![o] = [row EXCEPT !.life = "live"]]

\* orderRepository.Delete: models.Order has no DeletedAt column, the row goes
OrderRepoDelete(o) == [orders EXCEPT ![o] = [NoOrder EXCEPT !.life = "deleted"]]

(***************************************************************************)
(* order_logs.  The column is a JSON object; order_logs of the model is    *)
(* the array under its "logs" key, empty when the column is NULL, {} or    *)
(* has no such key (every reader treats the three alike).                  *)
(***************************************************************************)
\* UpdateOrderStatus's logEntry: timestamp, status, note
StatusLogEntry(newStatus) ==
    [action |-> "", status |-> newStatus, note |-> <<"Status updated to", newStatus>>]

\* PorterService.CreateDeliveryOrder's orderLog
PorterLogEntry == [action |-> "porter_order_created", status |-> "", note |-> <<>>]

\* PaymentService.ProcessWebhook's orderLog
PaymentLogEntry(status) == [action |-> "", status |-> status, note |-> <<"payment">>]

\* UpdateOrderStatus copies the entries of order_logs["logs"] that are JSON
\* objects; every writer stores objects
ExistingLogs(order_logs) == SelectSeq(order_logs, LAMBDA e : TRUE)

\* json.Unmarshal of a JSON object into a []interface{}: an
\* UnmarshalTypeError, the slice stays nil
UnmarshalObjectIntoSlice(order_logs) == <<>>

\* json.Unmarshal of a JSON array into a map[string]interface{}: an
\* UnmarshalTypeError, the map stays as made: {} with no "logs" key
UnmarshalArrayIntoMap(logs) == <<>>

\* PaymentService.ProcessWebhook, the order_logs it stores
ProcessWebhookLogs(order_logs, orderLog) ==
    UnmarshalArrayIntoMap(Append(UnmarshalObjectIntoSlice(order_logs), orderLog))

(***************************************************************************)
(* Init.                                                                   *)
(***************************************************************************)
OrderInit ==
    /\ orders = [o \in OrderIds |-> NoOrder]
    /\ payments = [o \in OrderIds |-> NoPayment]
    /\ refunds = [o \in OrderIds |-> NoRefund]
    /\ deliveries = [d \in DeliveryIds |-> NoDelivery]
    /\ tasks = [o \in OrderIds |-> NoTask]
    /\ ret = NoRet

(***************************************************************************)
(* Order creation.  A handler's early returns that change nothing are the  *)
(* guards of its action; the rejections the claims speak of are kept as    *)
(* returns.                                                                *)
(***************************************************************************)
NewOrder(o, restaurantID, status) ==
    [life |-> "live", user_id |-> <<"user", o>>, restaurant_id |-> restaurantID,
     cart_id |-> <<"cart", o>>, order_status |-> status, order_logs |-> <<>>]

\* OrderService.CreateOrder
CreateOrder(o, restaurantID) ==
    /\ orders[o].life = "none"
    /\ orders' = [orders EXCEPT ![o] = NewOrder(o, restaurantID, "pending")]
    /\ payments' = [payments EXCEPT ![o] = [exists |-> TRUE, razorpay |-> FALSE]]
    /\ ret' = [Return("CreateOrder", "") EXCEPT !.events = <<"order_created", "order_confirmation">>]
    /\ UNCHANGED <<refunds, deliveries, tasks>>

\* RazorpayService.CreateRazorpayOrder
CreateRazorpayOrder(o, restaurantID) ==
    /\ orders[o].life = "none"
    /\ orders' = [orders EXCEPT ![o] = NewOrder(o, restaurantID, "pending_payment")]
    /\ payments' = [payments EXCEPT ![o] = [exists |-> TRUE, razorpay |-> TRUE]]
    /\ ret' = Return("CreateRazorpayOrder", "")
    /\ UNCHANGED <<refunds, deliveries, tasks>>

(***************************************************************************)
(* OrderService.UpdateOrderStatus                                          *)
(***************************************************************************)
\* the row UpdateOrderStatus saves: status set, one log entry appended
UpdateOrderStatusRow(row, newStatus) ==
    [row EXCEPT !.order_status = newStatus,
                !.order_logs = Append(ExistingLogs(row.order_logs), StatusLogEntry(newStatus))]

UpdateOrderStatusRejectedSaves(o, newStatus) ==
    /\ orders' = OrderRepoUpdate(o, UpdateOrderStatusRow(orders[o], newStatus))
    /\ ret' = Return("UpdateOrderStatus", ErrInvalidTransition)

\* UpdateOrderStatus, the return on a transition the table does not list
UpdateOrderStatusRejected(o, newStatus) ==
    /\ ret' = Return("UpdateOrderStatus", ErrInvalidTransition)
    /\ UNCHANGED orders

UpdateOrderStatus(o, newStatus, restaurantID) ==
    /\ Live(o)
    /\ orders[o].restaurant_id = restaurantID
    /\ UNCHANGED <<payments, refunds, deliveries, tasks>>
    /\ IF ~OrderIsValidStatusTransition(orders[o].order_status, newStatus)
       THEN UpdateOrderStatusRejected(o, newStatus)
       ELSE /\ Len(orders[o].order_logs) < MaxLogs
            /\ orders' = OrderRepoUpdate(o, UpdateOrderStatusRow(orders[o], newStatus))
            /\ ret' = [Return("UpdateOrderStatus", "") EXCEPT
                         !.events = <<"order_status_updated", "order_status_update">>]

(***************************************************************************)
(* Carrier (Porter) deliveries and webhook.                                *)
(***************************************************************************)
\* porterDeliveryRepository.Create: is_active defaults to true
PorterDeliveryCreate(d, o) ==
    /\ ~deliveries[d].exists
    /\ Live(o)
    /\ deliveries' = [deliveries EXCEPT ![d] =
                        [exists |-> TRUE, order_id |-> o, is_active |-> TRUE]]
    /\ ret' = Return("PorterDeliveryCreate", "")
    /\ UNCHANGED <<orders, payments, refunds, tasks>>

\* PorterService.HandleWebhook, the switch that maps the carrier status to
\* the order status; "" when no case matches
PorterOrderStatus(status) ==
    CASE status = "order_accepted"   -> "dispatched"
      [] status = "order_start_trip" -> "dispatched"
      [] status = "order_end_job"    -> "delivered"
      [] status = "order_cancel"     -> "cancelled"
      [] status = "order_reopen"     -> "dispatched"
      [] OTHER                       -> ""

\* PorterService.HandleWebhook, the delivery row it saves
HandleWebhookDelivery(row, status) ==
    [row EXCEPT !.is_active = IF status = "order_cancel" THEN FALSE ELSE row.is_active]

\* PorterService.HandleWebhook, the order row it saves: the status alone
HandleWebhookOrder(row, newOrderStatus) == [row EXCEPT !.order_status = newOrderStatus]

\* PorterHandler.Webhook over PorterService.HandleWebhook
PorterWebhook(d, status) ==
    LET o == deliveries[d].order_id
        newOrderStatus == PorterOrderStatus(status)
        originalOrderStatus == orders[o].order_status
    IN  /\ deliveries[d].exists
        /\ Live(o)
        /\ deliveries' = [deliveries EXCEPT ![d] = HandleWebhookDelivery(@, status)]
        /\ orders' = IF newOrderStatus # "" /\ orders[o].order_status # newOrderStatus
                     THEN OrderRepoUpdate(o, HandleWebhookOrder(orders[o], newOrderStatus))
                     ELSE orders
        /\ IF status = "order_cancel" /\ originalOrderStatus # "cancelled"
           THEN /\ tasks[o].kind = "none"
                /\ tasks' = [tasks EXCEPT ![o] = [kind |-> "reassign", order |-> NoOrder]]
           ELSE UNCHANGED tasks
        /\ ret' = Return("PorterWebhook", "")
        /\ UNCHANGED <<payments, refunds>>

(***************************************************************************)
(* Payment webhooks.                                                       *)
(***************************************************************************)
\* RazorpayService.handlePaymentSuccess, the order row it saves
PaymentSuccessOrder(row) == [row EXCEPT !.order_status = "confirmed"]

\* RazorpayService.handlePaymentSuccess
HandlePaymentSuccess(o) ==
    /\ payments[o].exists /\ payments[o].razorpay
    /\ Live(o)
    /\ tasks[o].kind = "none"
    /\ orders' = OrderRepoUpdate(o, PaymentSuccessOrder(orders[o]))
    /\ tasks' = [tasks EXCEPT ![o] = [kind |-> "create", order |-> PaymentSuccessOrder(orders[o])]]
    /\ ret' = Return("HandlePaymentWebhook", "")
    /\ UNCHANGED <<payments, refunds, deliveries>>

\* RazorpayService.handlePaymentFailure, the orders table afterwards
PaymentFailureOrders(o) == OrderRepoDelete(o)

\* RazorpayService.handlePaymentFailure
HandlePaymentFailure(o) ==
    /\ payments[o].exists /\ payments[o].razorpay
    /\ orders' = PaymentFailureOrders(o)
    /\ ret' = Return("HandlePaymentWebhook", "")
    /\ UNCHANGED <<payments, refunds, deliveries, tasks>>

\* RazorpayService.HandlePaymentWebhook (signature verified); any other
\* event is logged and changes nothing
HandlePaymentWebhook(o, event) ==
    CASE event \in {"payment.captured", "payment.authorized"} -> HandlePaymentSuccess(o)
      [] event = "payment.failed" -> HandlePaymentFailure(o)
      [] OTHER -> /\ ret' = Return("HandlePaymentWebhook", "")
                  /\ UNCHANGED <<orders, payments, refunds, deliveries, tasks>>

\* PaymentService.ProcessWebhook, the order row it saves
ProcessWebhookOrder(row, status) ==
    IF status \in {"success", "completed"}
    THEN [row EXCEPT !.order_status = "confirmed",
                     !.order_logs = ProcessWebhookLogs(row.order_logs, PaymentLogEntry("payment_completed"))]
    ELSE IF status \in {"failed", "cancelled"}
    THEN [row EXCEPT !.order_status = "payment_failed",
                     !.order_logs = ProcessWebhookLogs(row.order_logs, PaymentLogEntry("payment_failed"))]
    ELSE row

\* PaymentService.ProcessWebhook
ProcessWebhook(o, status) ==
    /\ payments[o].exists
    /\ Live(o)
    /\ orders' = IF status \in {"success", "completed", "failed", "cancelled"}
                 THEN OrderRepoUpdate(o, ProcessWebhookOrder(orders[o], status))
                 ELSE orders
    /\ ret' = Return("ProcessWebhook", "")
    /\ UNCHANGED <<payments, refunds, deliveries, tasks>>

(***************************************************************************)
(* Detached delivery-dispatch goroutines.                                  *)
(***************************************************************************)
\* how DeliveryPartnerService.CreateDeliveryOrder ends: an error before the
\* carrier order exists, the Porter path, the Porter path with the final
\* Save failing (logged), the legacy path
DispatchOutcomes == {"failed", "porter", "porter_save_failed", "legacy"}

\* PorterService.CreateDeliveryOrder, the order row it saves: the row it was
\* handed, with the porter_order_created entry appended
CreateDeliveryOrderRow(row) ==
    [row EXCEPT !.order_logs = Append(row.order_logs, PorterLogEntry)]

\* DeliveryPartnerService.CreateDeliveryOrder on the order row it was handed:
\* only the Porter path persists (createLegacyDeliveryOrder changes the
\* in-memory order alone); the value is the orders table afterwards
CreateDeliveryOrder(o, row, outcome) ==
    IF outcome = "porter" THEN OrderRepoUpdate(o, CreateDeliveryOrderRow(row)) ELSE orders

\* porterDeliveryRepository.DeactivateOldDeliveries
DeactivateOldDeliveries(o) ==
    [d \in DeliveryIds |->
        IF deliveries[d].exists /\ deliveries[d].order_id = o /\ deliveries[d].is_active
        THEN [deliveries[d] EXCEPT !.is_active = FALSE]
        ELSE deliveries[d]]

\* the goroutine of handlePaymentSuccess: CreateDeliveryOrder on the order
\* value read before the goroutine started; its error is printed
DeliveryCreateRun(o, outcome) ==
    /\ tasks[o].kind = "create"
    /\ outcome = "porter" => Len(tasks[o].order.order_logs) < MaxLogs
    /\ orders' = CreateDeliveryOrder(o, tasks[o].order, outcome)
    /\ tasks' = [tasks EXCEPT ![o] = NoTask]
    /\ UNCHANGED <<payments, refunds, deliveries, ret>>

\* the goroutine of PorterHandler.Webhook: ReassignDeliveryPartner(orderID,
\* "porter"); its error goes to no caller
ReassignDeliveryPartner(o, deactivateOk, outcome) ==
    /\ tasks[o].kind = "reassign"
    /\ tasks' = [tasks EXCEPT ![o] = NoTask]
    /\ UNCHANGED <<payments, refunds, ret>>
    /\ IF ~Live(o) \/ ~deactivateOk
       THEN UNCHANGED <<orders, deliveries>>
       ELSE /\ outcome = "porter" => Len(orders[o].order_logs) < MaxLogs
            /\ deliveries' = DeactivateOldDeliveries(o)
            /\ orders' = CreateDeliveryOrder(o, orders[o], outcome)

(***************************************************************************)
(* Refunds.                                                                *)
(***************************************************************************)
\* RefundService.CreateRefund
CreateRefund(o) ==
    /\ Live(o)
    /\ orders[o].order_status \in {"completed", "delivered"}
    /\ ~refunds[o].exists
    /\ refunds' = [refunds EXCEPT ![o] =
                     [exists |-> TRUE, status |-> "pending", admin_comment |-> "",
                      processed |-> FALSE]]
    /\ ret' = Return("CreateRefund", "")
    /\ UNCHANGED <<orders, payments, deliveries, tasks>>

\* RefundService.UpdateRefundStatus, the row it saves
UpdateRefundStatusRow(row, status, adminComment) ==
    [row EXCEPT !.status = status,
                !.admin_comment = IF adminComment # "" THEN adminComment ELSE row.admin_comment]

\* UpdateRefundStatus, the return on a transition the table does not list
UpdateRefundStatusRejected(o, status, adminComment) ==
    /\ ret' = Return("UpdateRefundStatus", ErrInvalidTransition)
    /\ UNCHANGED refunds

\* RefundService.UpdateRefundStatus
UpdateRefundStatus(o, status, adminComment) ==
    /\ refunds[o].exists
    /\ UNCHANGED <<orders, payments, deliveries, tasks>>
    /\ IF ~RefundIsValidStatusTransition(refunds[o].status, status)
       THEN UpdateRefundStatusRejected(o, status, adminComment)
       ELSE /\ refunds' = [refunds EXCEPT ![o] = UpdateRefundStatusRow(@, status, adminComment)]
            /\ ret' = Return("UpdateRefundStatus", "")

\* RefundService.ProcessRefund, its precondition on the refund's status
ProcessRefundAllowed(status) == status = "approved"

\* RefundService.ProcessRefund
ProcessRefund(o) ==
    /\ refunds[o].exists
    /\ ProcessRefundAllowed(refunds[o].status)
    /\ payments[o].exists
    /\ refunds' = [refunds EXCEPT ![o].status = "processed", ![o].processed = TRUE]
    /\ ret' = Return("ProcessRefund", "")
    /\ UNCHANGED <<orders, payments, deliveries, tasks>>

(***************************************************************************)
(* Spec: the handlers as atomic actions.                                   *)
(***************************************************************************)
NoInstant == [weekday |-> "", hour |-> 0, minute |-> 0]
NoTick == [ran |-> FALSE, at |-> NoInstant, error |-> FALSE]
NoProbe == [table |-> ""]

RaceIdle == requests = <<>>
SchedIdle == restaurants = <<>> /\ tick = NoTick
TableIdle == probe = NoProbe

\* nothing cached; the scheduler as NewEnhancedCronService returns it
NoCache == {}
GoroutineKinds == {"status", "maintenance", "daily"}
NoCron == [isRunning |-> FALSE, stopChan |-> "open", live |-> [k \in GoroutineKinds |-> 0]]
ShopIdle == cache = NoCache /\ cron = NoCron

Init == OrderInit /\ RaceIdle /\ SchedIdle /\ TableIdle /\ ShopIdle

\* the variables of the other specifications
OrderFrame == UNCHANGED <<requests, restaurants, tick, probe, cache, cron>>

Next ==
    \/ OrderFrame /\ \E o \in OrderIds, r \in OrderRestaurantIds : CreateOrder(o, r)
    \/ OrderFrame /\ \E o \in OrderIds, r \in OrderRestaurantIds : CreateRazorpayOrder(o, r)
    \/ OrderFrame /\ \E o \in OrderIds, st \in RequestedStatuses, r \in RestaurantIds :
                        UpdateOrderStatus(o, st, r)
    \/ OrderFrame /\ \E d \in DeliveryIds, o \in OrderIds : PorterDeliveryCreate(d, o)
    \/ OrderFrame /\ \E d \in DeliveryIds, st \in PorterStatuses : PorterWebhook(d, st)
    \/ OrderFrame /\ \E o \in OrderIds, ev \in RazorpayEvents : HandlePaymentWebhook(o, ev)
    \/ OrderFrame /\ \E o \in OrderIds, st \in PaymentWebhookStatuses : ProcessWebhook(o, st)
    \/ OrderFrame /\ \E o \in OrderIds, outcome \in DispatchOutcomes : DeliveryCreateRun(o, outcome)
    \/ OrderFrame /\ \E o \in OrderIds, ok \in BOOLEAN, outcome \in DispatchOutcomes :
                        ReassignDeliveryPartner(o, ok, outcome)
    \/ OrderFrame /\ \E o \in OrderIds : CreateRefund(o)
    \/ OrderFrame /\ \E o \in OrderIds, st \in RequestedRefundStatuses, c \in {"", "comment"} :
                        UpdateRefundStatus(o, st, c)
    \/ OrderFrame /\ \E o \in OrderIds : ProcessRefund(o)

Spec == Init /\ [][Next]_vars

(***************************************************************************)
(* TableSpec: the two transition tables applied to pairs of strings.       *)
(***************************************************************************)
\* strings a lookup may be given: every status of either table, statuses the
\* tables do not know, the empty string
ProbeStatuses == OrderStatuses \cup RefundStatuses \cup {"refunded", "completed", ""}

LookupOrder(current, requested) ==
    probe' = [table |-> "order", current |-> current, requested |-> requested,
              valid |-> OrderIsValidStatusTransition(current, requested)]

LookupRefund(current, requested) ==
    probe' = [table |-> "refund", current |-> current, requested |-> requested,
              valid |-> RefundIsValidStatusTransition(current, requested)]

TableInit == OrderInit /\ RaceIdle /\ SchedIdle /\ ShopIdle /\ probe = NoProbe

TableFrame ==
    UNCHANGED <<orders, payments, refunds, deliveries, tasks, ret, requests, restaurants, tick,
                cache, cron>>

TableNext ==
    \/ TableFrame /\ \E c \in ProbeStatuses, r \in ProbeStatuses : LookupOrder(c, r)
    \/ TableFrame /\ \E c \in ProbeStatuses, r \in ProbeStatuses : LookupRefund(c, r)

TableSpec == TableInit /\ [][TableNext]_vars

(***************************************************************************)
(* RaceSpec: UpdateOrderStatus as its two database round trips.  A request *)
(* reads the order row (orderRepository.GetByID), then validates against   *)
(* the row it read, and saves that row whole (orderRepository.Update).     *)
(***************************************************************************)
NoRequest == [pc |-> "idle", order |-> "", newStatus |-> "", read |-> NoOrder,
              err |-> "", events |-> <<>>]

\* UpdateOrderStatus up to and including orderRepo.GetByID and the
\* restaurant check
UpdateOrderStatusRead(q, o, newStatus, restaurantID) ==
    /\ requests[q].pc = "idle"
    /\ Live(o)
    /\ orders[o].restaurant_id = restaurantID
    /\ requests' = [requests EXCEPT ![q] =
                      [NoRequest EXCEPT !.pc = "read", !.order = o,
                                        !.newStatus = newStatus, !.read = orders[o]]]
    /\ UNCHANGED orders

\* UpdateOrderStatus from the transition check to the return
UpdateOrderStatusWrite(q) ==
    LET o == requests[q].order
        row == requests[q].read
        newStatus == requests[q].newStatus
    IN  /\ requests[q].pc = "read"
        /\ IF ~OrderIsValidStatusTransition(row.order_status, newStatus)
           THEN /\ requests' = [requests EXCEPT ![q].pc = "done", ![q].err = ErrInvalidTransition]
                /\ UNCHANGED orders
           ELSE /\ Len(row.order_logs) < MaxLogs
                /\ orders' = OrderRepoUpdate(o, UpdateOrderStatusRow(row, newStatus))
                /\ requests' = [requests EXCEPT
                                  ![q].pc = "done",
                                  ![q].events = <<"order_status_updated", "order_status_update">>]

RaceCreateOrder(o, restaurantID) ==
    /\ CreateOrder(o, restaurantID)
    /\ UNCHANGED requests

RaceInit ==
    /\ OrderInit /\ SchedIdle /\ TableIdle /\ ShopIdle
    /\ requests = [q \in RequestIds |-> NoRequest]

RaceFrame == UNCHANGED <<restaurants, tick, probe, cache, cron>>
RaceOrderFrame == UNCHANGED <<payments, refunds, deliveries, tasks, ret>>

RaceNext ==
    \/ RaceFrame /\ \E o \in OrderIds, r \in OrderRestaurantIds : RaceCreateOrder(o, r)
    \/ RaceFrame /\ RaceOrderFrame
          /\ \E q \in RequestIds, o \in OrderIds, st \in RequestedStatuses, r \in RestaurantIds :
                UpdateOrderStatusRead(q, o, st, r)
    \/ RaceFrame /\ RaceOrderFrame /\ \E q \in RequestIds : UpdateOrderStatusWrite(q)

RaceSpec == RaceInit /\ [][RaceNext]_vars

(***************************************************************************)
(* SchedSpec: the restaurants table and the scheduler tick                 *)
(* (EnhancedCronService.updateAllRestaurantStatuses).                      *)
(***************************************************************************)
\* a time-of-day string as its bytes, in byte order: the digits, then ':'
Colon == 10

\* time.Format("15:04")
Format1504(hour, minute) ==
    <<hour \div 10, hour % 10, Colon, minute \div 10, minute % 10>>

Min(a, b) == IF a < b THEN a ELSE b

\* Go's < on strings: the first differing byte decides, a proper prefix is less
RECURSIVE StrLessFrom(_, _, _)
StrLessFrom(a, b, i) ==
    IF i > Len(a) THEN i <= Len(b)
    ELSE IF i > Len(b) THEN FALSE
    ELSE IF a[i] # b[i] THEN a[i] < b[i]
    ELSE StrLessFrom(a, b, i + 1)

StrLess(a, b) == StrLessFrom(a, b, 1)
StrLeq(a, b) == ~StrLess(b, a)

\* opening_hours values of the modelled tables: a day shift and an overnight
\* shift on mondays, no entry for the other days
DayShift ==
    [nil |-> FALSE,
     days |-> {[day |-> "monday", is_open |-> TRUE,
                open_time |-> Format1504(9, 0), close_time |-> Format1504(17, 0)]}]
NightShift ==
    [nil |-> FALSE,
     days |-> {[day |-> "monday", is_open |-> TRUE,
                open_time |-> Format1504(22, 0), close_time |-> Format1504(4, 0)]}]
OpeningHoursValues == {DayShift, NightShift}

\* the instants a tick may run at; weekday is time.Weekday.String()
Instants ==
    {[weekday |-> "Monday", hour |-> 12, minute |-> 0],
     [weekday |-> "Monday", hour |-> 23, minute |-> 0]}

\* strings.ToLower on the weekday names
ToLower(day) ==
    CASE day = "Sunday" -> "sunday"
      [] day = "Monday" -> "monday"
      [] day = "Tuesday" -> "tuesday"
      [] day = "Wednesday" -> "wednesday"
      [] day = "Thursday" -> "thursday"
      [] day = "Friday" -> "friday"
      [] day = "Saturday" -> "saturday"
      [] OTHER -> day

\* the restaurant columns the scheduler reads or writes, as the rows of a
\* table no status update has touched yet; last_status_update NULL is NoInstant
RestaurantRows ==
    [auto_open_close : BOOLEAN, status : {"active", "inactive"}, is_open : BOOLEAN,
     opening_hours : OpeningHoursValues, last_status_update : {NoInstant}]

\* the evaluator with the same-day comparison only
SameDayWindowOnly(restaurant, checkTime) ==
    LET currentTimeStr == Format1504(checkTime.hour, checkTime.minute)
        entries == {e \in restaurant.opening_hours.days : e.day = ToLower(checkTime.weekday)}
        dayTiming == CHOOSE e \in entries : TRUE
    IN  IF ~restaurant.auto_open_close THEN restaurant.is_open
        ELSE IF restaurant.opening_hours.nil THEN FALSE
        ELSE IF entries = {} THEN FALSE
        ELSE IF ~dayTiming.is_open THEN FALSE
        ELSE IF dayTiming.open_time = <<>> \/ dayTiming.close_time = <<>> THEN FALSE
        ELSE /\ StrLeq(dayTiming.open_time, currentTimeStr)
             /\ StrLeq(currentTimeStr, dayTiming.close_time)

\* EnhancedCronService.shouldRestaurantBeOpenAtTime
ShouldRestaurantBeOpenAtTime(restaurant, checkTime) ==
    LET currentDay == ToLower(checkTime.weekday)
        currentTimeStr == Format1504(checkTime.hour, checkTime.minute)
        entries == {e \in restaurant.opening_hours.days : e.day = currentDay}
        dayTiming == CHOOSE e \in entries : TRUE
    IN  IF ~restaurant.auto_open_close THEN restaurant.is_open
        ELSE IF restaurant.opening_hours.nil THEN FALSE
        ELSE IF entries = {} THEN FALSE
        ELSE IF ~dayTiming.is_open THEN FALSE
        ELSE IF dayTiming.open_time = <<>> \/ dayTiming.close_time = <<>> THEN FALSE
        ELSE IF StrLess(dayTiming.close_time, dayTiming.open_time)
        THEN \/ StrLeq(dayTiming.open_time, currentTimeStr)
             \/ StrLeq(currentTimeStr, dayTiming.close_time)
        ELSE /\ StrLeq(dayTiming.open_time, currentTimeStr)
             /\ StrLeq(currentTimeStr, dayTiming.close_time)

\* restaurantRepository.Search with the empty query: the ids (positions) of
\* up to limit rows after the first offset rows.  The query has no ORDER BY;
\* the model gives every page the same order, the case kindest to the scan
Search(table, limit, offset) ==
    [j \in 1..Min(limit, IF Len(table) > offset THEN Len(table) - offset ELSE 0) |-> offset + j]

\* EnhancedCronService.getRestaurantsWithAutoOpenClose
GetRestaurantsWithAutoOpenClose(table, limit, offset) ==
    LET allRestaurants == Search(table, limit * 2, offset)
        filteredRestaurants ==
            SelectSeq(allRestaurants,
                      LAMBDA i : table[i].auto_open_close /\ table[i].status = "active")
    IN  SubSeq(filteredRestaurants, 1, Min(limit, Len(filteredRestaurants)))

\* EnhancedCronService.updateRestaurantStatus on row i: the table afterwards
\* and whether restaurantRepo.Update failed.  time.Now() of the write is the
\* instant of the tick
UpdateRestaurantStatus(table, i, checkTime, failingRow) ==
    LET shouldBeOpen == ShouldRestaurantBeOpenAtTime(table[i], checkTime)
        statusChanged == table[i].is_open # shouldBeOpen
        now == checkTime
    IN  IF ~statusChanged THEN [table |-> table, error |-> FALSE]
        ELSE IF i = failingRow THEN [table |-> table, error |-> TRUE]
        ELSE [table |-> [table EXCEPT ![i].is_open = shouldBeOpen,
                                      ![i].last_status_update = now],
              error |-> FALSE]

\* the inner loop of updateAllRestaurantStatuses over one page
RECURSIVE UpdatePage(_, _, _, _, _)
UpdatePage(table, page, k, checkTime, failingRow) ==
    IF k > Len(page) THEN [table |-> table, error |-> FALSE]
    ELSE LET one == UpdateRestaurantStatus(table, page[k], checkTime, failingRow)
             rest == UpdatePage(one.table, page, k + 1, checkTime, failingRow)
         IN  [table |-> rest.table, error |-> one.error \/ rest.error]

\* a scan that sets every row by its opening hours, manual or not
UpdateEveryRowFrom(table, offset, checkTime, failingRow) ==
    [table |-> [i \in 1..Len(table) |->
                  [table[i] EXCEPT
                     !.is_open = ShouldRestaurantBeOpenAtTime(
                                     [table[i] EXCEPT !.auto_open_close = TRUE], checkTime),
                     !.last_status_update = checkTime]],
     error |-> FALSE]

\* a scan that ends at the first page in which an Update failed
RECURSIVE UpdateAllFromUntilError(_, _, _, _)
UpdateAllFromUntilError(table, offset, checkTime, failingRow) ==
    LET page == GetRestaurantsWithAutoOpenClose(table, PageLimit, offset)
        done == UpdatePage(table, page, 1, checkTime, failingRow)
        rest == UpdateAllFromUntilError(done.table, offset + PageLimit, checkTime, failingRow)
    IN  IF Len(page) = 0 THEN [table |-> table, error |-> FALSE]
        ELSE IF Len(page) < PageLimit \/ done.error THEN done
        ELSE rest

\* the outer loop of updateAllRestaurantStatuses from the given offset
RECURSIVE UpdateAllFrom(_, _, _, _)
UpdateAllFrom(table, offset, checkTime, failingRow) ==
    LET page == GetRestaurantsWithAutoOpenClose(table, PageLimit, offset)
        done == UpdatePage(table, page, 1, checkTime, failingRow)
        rest == UpdateAllFrom(done.table, offset + PageLimit, checkTime, failingRow)
    IN  IF Len(page) = 0 THEN [table |-> table, error |-> FALSE]
        ELSE IF Len(page) < PageLimit THEN done
        ELSE [table |-> rest.table, error |-> done.error \/ rest.error]

\* EnhancedCronService.updateAllRestaurantStatuses: one tick.  searchFails:
\* the first Search returns an error; failingRow: the row whose Update fails
UpdateAllRestaurantStatuses(checkTime, searchFails, failingRow) ==
    LET result == IF searchFails THEN [table |-> restaurants, error |-> TRUE]
                  ELSE UpdateAllFrom(restaurants, 0, checkTime, failingRow)
    IN  /\ restaurants' = result.table
        /\ tick' = [ran |-> TRUE, at |-> checkTime, error |-> result.error]

TablesOfLength(n) == [1..n -> RestaurantRows]

SchedInit ==
    /\ OrderInit /\ RaceIdle /\ TableIdle /\ ShopIdle
    /\ \E n \in 0..NumRestaurants : restaurants \in TablesOfLength(n)
    /\ tick = NoTick

SchedFrame ==
    UNCHANGED <<orders, payments, refunds, deliveries, tasks, ret, requests, probe, cache, cron>>

SchedNext ==
    \/ SchedFrame /\ \E at \in Instants, failingRow \in 0..NumRestaurants :
                        UpdateAllRestaurantStatuses(at, FALSE, failingRow)
    \/ SchedFrame /\ \E at \in Instants : UpdateAllRestaurantStatuses(at, TRUE, 0)

SchedSpec == SchedInit /\ [][SchedNext]_vars

\* TickSpec: the same ticks over the tables in which every restaurant has
\* the lifecycle status active
TickInit ==
    /\ SchedInit
    /\ \A i \in 1..Len(restaurants) : restaurants[i].status = "active"

TickSpec == TickInit /\ [][SchedNext]_vars

(***************************************************************************)
(* ShopSpec: one restaurant under the scheduler tick, ForceStatusUpdate    *)
(* and the vendor's UpdateShopStatus.  A request names the restaurant by   *)
(* the text of its id.                                                     *)
(***************************************************************************)
\* the ids a request may carry: the id of the first row, a well-formed id of
\* no row, a text uuid.Parse rejects
ShopRequestIds == {"r1", "r2", "not-a-uuid"}

\* uuid.Parse
UuidParses(id) == id \in {"r1", "r2"}

\* restaurantRepository.GetByID: the position of the row, 0 for no row
RowOf(table, id) ==
    LET i == CASE id = "r1" -> 1 [] id = "r2" -> 2 [] OTHER -> 0
    IN  IF i \in 1..Len(table) THEN i ELSE 0

ShopReturn(op, id, now, err) ==
    [op |-> op, err |-> err, events |-> <<>>, restaurant |-> id, now |-> now]

\* RedisCache.Delete
CacheDelete(c, key) == {e \in c : e.key # key}

\* RedisCache.DeleteWithPrefix: the key is prefix + ":" + key
CacheDeleteWithPrefix(c, prefix, key) == CacheDelete(c, <<prefix, key>>)

\* EnhancedCronService.determineRestaurantStatus
DetermineRestaurantStatus(restaurant, now) ==
    IF ~restaurant.auto_open_close
    THEN IF restaurant.is_open THEN "open" ELSE "closed"
    ELSE IF ShouldRestaurantBeOpenAtTime(restaurant, now) THEN "open" ELSE "closed"

\* EnhancedCronService.ForceStatusUpdate
ForceStatusUpdate(id, now, updateFails) ==
    LET i == RowOf(restaurants, id)
        newStatus == DetermineRestaurantStatus(restaurants[i], now)
    IN  /\ UNCHANGED <<tick, cache>>
        /\ IF ~UuidParses(id)
           THEN /\ ret' = ShopReturn("ForceStatusUpdate", id, now, "invalid restaurant ID")
                /\ UNCHANGED restaurants
           ELSE IF i = 0
           THEN /\ ret' = ShopReturn("ForceStatusUpdate", id, now, "restaurant not found")
                /\ UNCHANGED restaurants
           ELSE IF restaurants[i].status = newStatus
           THEN /\ ret' = ShopReturn("ForceStatusUpdate", id, now, "")
                /\ UNCHANGED restaurants
           ELSE IF updateFails
           THEN /\ ret' = ShopReturn("ForceStatusUpdate", id, now,
                                     "failed to update restaurant status")
                /\ UNCHANGED restaurants
           ELSE /\ ret' = ShopReturn("ForceStatusUpdate", id, now, "")
                /\ restaurants' = [restaurants EXCEPT ![i].status = newStatus,
                                                      ![i].last_status_update = now]

\* ShopTimeService.UpdateShopStatus; now is the instant of the request
UpdateShopStatus(id, isOpen, now, updateFails) ==
    LET i == RowOf(restaurants, id)
    IN  /\ UNCHANGED tick
        /\ IF ~UuidParses(id)
           THEN /\ ret' = ShopReturn("UpdateShopStatus", id, now, "invalid restaurant ID")
                /\ UNCHANGED <<restaurants, cache>>
           ELSE IF i = 0
           THEN /\ ret' = ShopReturn("UpdateShopStatus", id, now, "restaurant not found")
                /\ UNCHANGED <<restaurants, cache>>
           ELSE IF updateFails
           THEN /\ ret' = ShopReturn("UpdateShopStatus", id, now,
                                     "failed to update restaurant status")
                /\ UNCHANGED <<restaurants, cache>>
           ELSE /\ ret' = ShopReturn("UpdateShopStatus", id, now, "")
                /\ restaurants' = [restaurants EXCEPT ![i].is_open = isOpen]
                /\ cache' = CacheDeleteWithPrefix(cache, "restaurant", id)

\* one tick of the scheduler among the requests
ShopTick(checkTime, searchFails, failingRow) ==
    /\ UpdateAllRestaurantStatuses(checkTime, searchFails, failingRow)
    /\ ret' = ShopReturn("updateAllRestaurantStatuses", "", checkTime, "")
    /\ UNCHANGED cache

ShopInit ==
    /\ OrderInit /\ RaceIdle /\ TableIdle /\ ShopIdle
    /\ restaurants \in TablesOfLength(1)
    /\ tick = NoTick

ShopFrame ==
    UNCHANGED <<orders, payments, refunds, deliveries, tasks, requests, probe, cron>>

ShopNext ==
    \/ ShopFrame /\ \E at \in Instants, searchFails \in BOOLEAN, failingRow \in 0..1 :
                       ShopTick(at, searchFails, failingRow)
    \/ ShopFrame /\ \E id \in ShopRequestIds, now \in Instants, updateFails \in BOOLEAN :
                       ForceStatusUpdate(id, now, updateFails)
    \/ ShopFrame /\ \E id \in ShopRequestIds, isOpen \in BOOLEAN, now \in Instants,
                        updateFails \in BOOLEAN :
                       UpdateShopStatus(id, isOpen, now, updateFails)

ShopSpec == ShopInit /\ [][ShopNext]_vars

(***************************************************************************)
(* CacheSpec: one restaurant under the scheduler tick and the two reads    *)
(* that go through the Redis cache.  The tick is the only writer.          *)
(***************************************************************************)
\* RedisCache.Get: the values cached under the key, none on a miss
CacheGet(c, key) == {e.value : e \in {x \in c : x.key = key}}

\* RedisCache.Set; the expiration is the step CacheExpire
CacheSet(c, key, value) == CacheDelete(c, key) \cup {[key |-> key, value |-> value]}

\* fmt.Sprintf("restaurant:%s:timing", restaurantID)
TimingKey(id) == <<"restaurant", id, "timing">>

\* fmt.Sprintf("restaurant:%s:time_status", restaurantID)
TimeStatusKey(id) == <<"restaurant", id, "time_status">>

ReadReturn(op, id, now, err, result) ==
    [op |-> op, err |-> err, events |-> <<>>, restaurant |-> id, now |-> now,
     result |-> result]

NoResult == [is_open |-> FALSE]

\* ShopTimeService.GetShopTiming
GetShopTiming(id, now) ==
    LET i == RowOf(restaurants, id)
        cached == CacheGet(cache, TimingKey(id))
    IN  /\ UNCHANGED <<restaurants, tick>>
        /\ IF ~UuidParses(id)
           THEN /\ ret' = ReadReturn("GetShopTiming", id, now, "invalid restaurant ID", NoResult)
                /\ UNCHANGED cache
           ELSE IF cached # {}
           THEN /\ ret' = ReadReturn("GetShopTiming", id, now, "", CHOOSE v \in cached : TRUE)
                /\ UNCHANGED cache
           ELSE IF i = 0
           THEN /\ ret' = ReadReturn("GetShopTiming", id, now, "restaurant not found", NoResult)
                /\ UNCHANGED cache
           ELSE /\ ret' = ReadReturn("GetShopTiming", id, now, "", restaurants[i])
                /\ cache' = CacheSet(cache, TimingKey(id), restaurants[i])

\* TimeBasedProductService.calculateOperatingHours, without next_open_time
CalculateOperatingHours(status, restaurant, checkTime) ==
    LET entries == {e \in restaurant.opening_hours.days :
                        e.day = ToLower(checkTime.weekday) /\ e.is_open}
        dayMap == CHOOSE e \in entries : TRUE
    IN  IF entries = {} THEN status
        ELSE [status EXCEPT !.opening_time = dayMap.open_time,
                            !.closing_time = dayMap.close_time]

\* the RestaurantTimeStatus that getRestaurantTimeStatus builds from a row
TimeStatusOf(restaurant, checkTime) ==
    LET status == [is_open |-> restaurant.is_open,
                   opening_time |-> <<>>, closing_time |-> <<>>,
                   auto_open_close_enabled |-> restaurant.auto_open_close,
                   last_status_update |-> restaurant.last_status_update]
    IN  IF restaurant.auto_open_close /\ ~restaurant.opening_hours.nil
        THEN CalculateOperatingHours(status, restaurant, checkTime)
        ELSE status

\* TimeBasedProductService.getRestaurantTimeStatus
GetRestaurantTimeStatus(id, checkTime) ==
    LET i == RowOf(restaurants, id)
        cached == CacheGet(cache, TimeStatusKey(id))
    IN  /\ UNCHANGED <<restaurants, tick>>
        /\ IF cached # {}
           THEN /\ ret' = ReadReturn("getRestaurantTimeStatus", id, checkTime, "",
                                     CHOOSE v \in cached : TRUE)
                /\ UNCHANGED cache
           ELSE IF ~UuidParses(id)
           THEN /\ ret' = ReadReturn("getRestaurantTimeStatus", id, checkTime,
                                     "invalid restaurant ID", NoResult)
                /\ UNCHANGED cache
           ELSE IF i = 0
           THEN /\ ret' = ReadReturn("getRestaurantTimeStatus", id, checkTime,
                                     "record not found", NoResult)
                /\ UNCHANGED cache
           ELSE /\ ret' = ReadReturn("getRestaurantTimeStatus", id, checkTime, "",
                                     TimeStatusOf(restaurants[i], checkTime))
                /\ cache' = CacheSet(cache, TimeStatusKey(id),
                                     TimeStatusOf(restaurants[i], checkTime))

\* Redis drops an entry whose expiration (5 minutes, 1 minute) has passed
CacheExpire(key) ==
    /\ CacheGet(cache, key) # {}
    /\ cache' = CacheDelete(cache, key)
    /\ UNCHANGED <<restaurants, tick, ret>>

CacheInit == ShopInit

CacheNext ==
    \/ ShopFrame /\ \E at \in Instants, searchFails \in BOOLEAN, failingRow \in 0..1 :
                       ShopTick(at, searchFails, failingRow)
    \/ ShopFrame /\ \E id \in ShopRequestIds, now \in Instants : GetShopTiming(id, now)
    \/ ShopFrame /\ \E id \in ShopRequestIds, at \in Instants : GetRestaurantTimeStatus(id, at)
    \/ ShopFrame /\ \E id \in ShopRequestIds : CacheExpire(TimingKey(id))
    \/ ShopFrame /\ \E id \in ShopRequestIds : CacheExpire(TimeStatusKey(id))

CacheSpec == CacheInit /\ [][CacheNext]_vars

(***************************************************************************)
(* TimingSpec: one restaurant under the vendor's UpdateShopTiming and      *)
(* UpdateShopStatus while a tick is under way.  The tick is taken as its   *)
(* database round trips: the Search of a page, which hands it copies of    *)
(* the rows, and one Save per restaurant whose is_open it flips.           *)
(***************************************************************************)
\* the tick between two round trips: the page it holds (ids and the copies
\* of the rows Search returned), the position in the page, the next offset
NoScan == [pc |-> "idle", at |-> NoInstant, offset |-> 0, page |-> <<>>, rows |-> <<>>,
           k |-> 0]

\* the bodies of PUT /shop/timing: opening_hours and auto_open_close
UpdateShopTimingRequests == [opening_hours : OpeningHoursValues, auto_open_close : BOOLEAN]

\* the loop of UpdateShopTiming that builds the JSONB from the request
OpeningHoursJSON(opening_hours) ==
    [nil |-> FALSE,
     days |-> {[day |-> t.day, is_open |-> t.is_open, open_time |-> t.open_time,
                close_time |-> t.close_time] : t \in opening_hours.days}]

\* ShopTimeService.UpdateShopTiming
UpdateShopTiming(id, req, now, updateFails) ==
    LET i == RowOf(restaurants, id)
    IN  /\ UNCHANGED tick
        /\ IF ~UuidParses(id)
           THEN /\ ret' = ShopReturn("UpdateShopTiming", id, now, "invalid restaurant ID")
                /\ UNCHANGED <<restaurants, cache>>
           ELSE IF i = 0
           THEN /\ ret' = ShopReturn("UpdateShopTiming", id, now, "restaurant not found")
                /\ UNCHANGED <<restaurants, cache>>
           ELSE IF updateFails
           THEN /\ ret' = ShopReturn("UpdateShopTiming", id, now, "failed to update restaurant")
                /\ UNCHANGED <<restaurants, cache>>
           ELSE /\ ret' = ShopReturn("UpdateShopTiming", id, now, "")
                /\ restaurants' =
                       [restaurants EXCEPT
                          ![i].opening_hours = OpeningHoursJSON(req.opening_hours),
                          ![i].auto_open_close = req.auto_open_close]
                /\ cache' = CacheDeleteWithPrefix(cache, "restaurant", id)

\* updateAllRestaurantStatuses up to its loop: time.Now(), offset := 0
TickBegin(checkTime) ==
    /\ requests[1].pc = "idle"
    /\ requests' = [requests EXCEPT ![1] = [NoScan EXCEPT !.pc = "search", !.at = checkTime]]
    /\ UNCHANGED <<restaurants, tick, cache, ret>>

\* one getRestaurantsWithAutoOpenClose of the loop and the tests on its result
TickSearch(searchFails) ==
    LET scan == requests[1]
        page == GetRestaurantsWithAutoOpenClose(restaurants, PageLimit, scan.offset)
    IN  /\ scan.pc = "search"
        /\ requests' =
              [requests EXCEPT ![1] =
                 IF searchFails \/ Len(page) = 0 THEN NoScan
                 ELSE [scan EXCEPT !.pc = "update", !.page = page, !.k = 1,
                                   !.rows = [j \in 1..Len(page) |-> restaurants[page[j]]]]]
        /\ UNCHANGED <<restaurants, tick, cache, ret>>

\* updateRestaurantStatus on the copy of a restaurant: restaurantRepo.Update
\* saves the copy
SaveCopy(table, i, row, checkTime, updateFails) ==
    LET shouldBeOpen == ShouldRestaurantBeOpenAtTime(row, checkTime)
        statusChanged == row.is_open # shouldBeOpen
        now == checkTime
    IN  IF ~statusChanged \/ updateFails THEN table
        ELSE [table EXCEPT ![i] = [row EXCEPT !.is_open = shouldBeOpen,
                                              !.last_status_update = now]]

\* one pass of the inner loop, and the end of the page after the last one
TickUpdate(updateFails) ==
    LET scan == requests[1]
    IN  /\ scan.pc = "update"
        /\ restaurants' = SaveCopy(restaurants, scan.page[scan.k], scan.rows[scan.k],
                                   scan.at, updateFails)
        /\ requests' =
              [requests EXCEPT ![1] =
                 IF scan.k < Len(scan.page) THEN [scan EXCEPT !.k = scan.k + 1]
                 ELSE IF Len(scan.page) < PageLimit THEN NoScan
                 ELSE [scan EXCEPT !.pc = "search", !.offset = scan.offset + PageLimit,
                                   !.page = <<>>, !.rows = <<>>, !.k = 0]]
        /\ UNCHANGED <<tick, cache, ret>>

TimingInit ==
    /\ OrderInit /\ TableIdle /\ ShopIdle
    /\ restaurants \in TablesOfLength(1)
    /\ \A i \in 1..Len(restaurants) : restaurants[i].status = "active"
    /\ tick = NoTick
    /\ requests = <<NoScan>>

TimingFrame == UNCHANGED <<orders, payments, refunds, deliveries, tasks, probe, cron>>

TimingNext ==
    \/ TimingFrame /\ \E at \in Instants : TickBegin(at)
    \/ TimingFrame /\ \E searchFails \in BOOLEAN : TickSearch(searchFails)
    \/ TimingFrame /\ \E updateFails \in BOOLEAN : TickUpdate(updateFails)
    \/ ShopFrame /\ \E id \in ShopRequestIds, req \in UpdateShopTimingRequests,
                       now \in Instants, updateFails \in BOOLEAN :
                       UpdateShopTiming(id, req, now, updateFails)
    \/ ShopFrame /\ \E id \in ShopRequestIds, isOpen \in BOOLEAN, now \in Instants,
                       updateFails \in BOOLEAN :
                       UpdateShopStatus(id, isOpen, now, updateFails)

TimingSpec == TimingInit /\ [][TimingNext]_vars

(***************************************************************************)
(* CoherenceSpec: one restaurant under the vendor's two updates and the    *)
(* read that goes through the Redis cache.                                 *)
(***************************************************************************)
CoherenceInit == ShopInit

CoherenceNext ==
    \/ ShopFrame /\ \E id \in ShopRequestIds, now \in Instants : GetShopTiming(id, now)
    \/ ShopFrame /\ \E id \in ShopRequestIds, isOpen \in BOOLEAN, now \in Instants,
                        updateFails \in BOOLEAN :
                       UpdateShopStatus(id, isOpen, now, updateFails)
    \/ ShopFrame /\ \E id \in ShopRequestIds, req \in UpdateShopTimingRequests,
                        now \in Instants, updateFails \in BOOLEAN :
                       UpdateShopTiming(id, req, now, updateFails)
    \/ ShopFrame /\ \E id \in ShopRequestIds : CacheExpire(TimingKey(id))

CoherenceSpec == CoherenceInit /\ [][CoherenceNext]_vars

(***************************************************************************)
(* HookSpec: the carrier webhook (PorterHandler.Webhook) as its steps, for *)
(* webhooks that arrive together: the handler reads the delivery and the   *)
(* order, PorterService.HandleWebhook synchronises both rows, the handler  *)
(* starts the reassignment goroutine, and the goroutine runs               *)
(* ReassignDeliveryPartner(orderID, "porter") on its own.                  *)
(***************************************************************************)
\* the webhooks in flight: two deliveries of a carrier notification
HookIds == {"w1", "w2"}

\* a webhook request: the handler's locals, its response, its goroutine and
\* the calls ReassignDeliveryPartner made in it
NoHook == [pc |-> "idle", delivery |-> "", status |-> "", order |-> "",
           originalOrderStatus |-> "", err |-> "", reassignment_triggered |-> FALSE,
           go |-> "none", calls |-> <<>>, reassignErr |-> ""]

\* how PorterService.HandleWebhook ends: nil, or the error of one of its Saves
HandleWebhookFailures == {"none", "delivery", "order"}

\* porterDeliveryRepository.GetActiveByOrderID: the active rows of the order
GetActiveByOrderID(table, o) ==
    {d \in DeliveryIds : table[d].exists /\ table[d].order_id = o /\ table[d].is_active}

\* PorterHandler.Webhook up to originalOrderStatus := order.OrderStatus
HookRead(q, d, status) ==
    LET o == deliveries[d].order_id
    IN  /\ requests[q].pc = "idle"
        /\ requests' = [requests EXCEPT ![q] =
              IF ~deliveries[d].exists
              THEN [NoHook EXCEPT !.pc = "done", !.delivery = d, !.status = status,
                                  !.err = "Porter delivery not found"]
              ELSE IF ~Live(o)
              THEN [NoHook EXCEPT !.pc = "done", !.delivery = d, !.status = status,
                                  !.order = o, !.err = "Order not found for Porter delivery"]
              ELSE [NoHook EXCEPT !.pc = "read", !.delivery = d, !.status = status,
                                  !.order = o,
                                  !.originalOrderStatus = orders[o].order_status]]
        /\ UNCHANGED <<orders, payments, refunds, deliveries, tasks, ret>>

\* the handler that takes originalOrderStatus from the order after the
\* status sync
HookHandleReadsAfterSync(q, failure) ==
    LET hook == requests[q]
        d == hook.delivery
        o == hook.order
        newOrderStatus == PorterOrderStatus(hook.status)
        saves == newOrderStatus # "" /\ orders[o].order_status # newOrderStatus
        synced == IF saves THEN newOrderStatus ELSE orders[o].order_status
        triggered == hook.status = "order_cancel" /\ synced # "cancelled"
    IN  /\ hook.pc = "read"
        /\ Live(o)
        /\ failure = "none"
        /\ deliveries' = [deliveries EXCEPT ![d] = HandleWebhookDelivery(@, hook.status)]
        /\ orders' = IF saves THEN OrderRepoUpdate(o, HandleWebhookOrder(orders[o], newOrderStatus))
                     ELSE orders
        /\ requests' = [requests EXCEPT ![q].pc = "done",
                                        ![q].reassignment_triggered = triggered,
                                        ![q].go = IF triggered THEN "running" ELSE "none"]
        /\ UNCHANGED <<payments, refunds, tasks, ret>>

\* PorterHandler.Webhook from h.porterService.HandleWebhook to its response
HookHandle(q, failure) ==
    LET hook == requests[q]
        d == hook.delivery
        o == hook.order
        newOrderStatus == PorterOrderStatus(hook.status)
        saves == newOrderStatus # "" /\ orders[o].order_status # newOrderStatus
        triggered == hook.status = "order_cancel" /\ hook.originalOrderStatus # "cancelled"
    IN  /\ hook.pc = "read"
        /\ UNCHANGED <<payments, refunds, tasks, ret>>
        /\ IF failure = "delivery"
           THEN /\ requests' = [requests EXCEPT ![q].pc = "done",
                                   ![q].err = "Failed to process webhook: failed to update Porter delivery"]
                /\ UNCHANGED <<orders, deliveries>>
           ELSE IF ~Live(o)
           THEN /\ requests' = [requests EXCEPT ![q].pc = "done",
                                   ![q].err = "Failed to process webhook: failed to get order"]
                /\ deliveries' = [deliveries EXCEPT ![d] = HandleWebhookDelivery(@, hook.status)]
                /\ UNCHANGED orders
           ELSE IF failure = "order" /\ saves
           THEN /\ requests' = [requests EXCEPT ![q].pc = "done",
                                   ![q].err = "Failed to process webhook: failed to update order status"]
                /\ deliveries' = [deliveries EXCEPT ![d] = HandleWebhookDelivery(@, hook.status)]
                /\ UNCHANGED orders
           ELSE /\ deliveries' = [deliveries EXCEPT ![d] = HandleWebhookDelivery(@, hook.status)]
                /\ orders' = IF saves
                             THEN OrderRepoUpdate(o, HandleWebhookOrder(orders[o], newOrderStatus))
                             ELSE orders
                /\ requests' = [requests EXCEPT ![q].pc = "done",
                                                ![q].reassignment_triggered = triggered,
                                                ![q].go = IF triggered THEN "running" ELSE "none"]

\* the goroutine of a webhook: DeliveryPartnerService.ReassignDeliveryPartner
\* with preferredPartner "porter"; calls lists the repository and carrier
\* calls it makes after reading the order
ReassignRun(q, deactivateOk, outcome) ==
    LET o == requests[q].order
        deactivated == DeactivateOldDeliveries(o)
        activeDelivery == GetActiveByOrderID(deactivated, o)
        createErr == IF outcome = "failed" THEN "failed to create delivery order" ELSE ""
    IN  /\ requests[q].go = "running"
        /\ UNCHANGED <<payments, refunds, tasks, ret>>
        /\ IF ~Live(o)
           THEN /\ requests' = [requests EXCEPT ![q].go = "returned",
                                                ![q].reassignErr = "failed to get order"]
                /\ UNCHANGED <<orders, deliveries>>
           ELSE IF ~deactivateOk
           THEN /\ requests' = [requests EXCEPT
                                  ![q].go = "returned",
                                  ![q].calls = <<"DeactivateOldDeliveries">>,
                                  ![q].reassignErr = "failed to deactivate old deliveries"]
                /\ UNCHANGED <<orders, deliveries>>
           ELSE /\ outcome = "porter" => Len(orders[o].order_logs) < MaxLogs
                /\ deliveries' = deactivated
                /\ orders' = CreateDeliveryOrder(o, orders[o], outcome)
                /\ requests' = [requests EXCEPT
                                  ![q].go = "returned",
                                  ![q].calls =
                                      <<"DeactivateOldDeliveries", "GetActiveByOrderID">>
                                      \o (IF activeDelivery # {} THEN <<"CancelOrder">> ELSE <<>>)
                                      \o <<"CreateDeliveryOrder">>,
                                  ![q].reassignErr = createErr]

\* how POST /porter/reassign/:order_id ends: no failure, the handler's own
\* DeactivateOldDeliveries fails, the one of ReassignDeliveryPartner fails
ReassignFailures == {"none", "handler_deactivate", "service_deactivate"}

\* PorterHandler.ReassignPorterDelivery, the operator's reassignment
\* endpoint, over ReassignDeliveryPartner(orderID, "porter"); calls lists the
\* repository and carrier calls made after the order was found
ReassignPorterDelivery(o, failure, outcome) ==
    LET deactivated == DeactivateOldDeliveries(o)
        activeDelivery == GetActiveByOrderID(deactivated, o)
        cancel == IF activeDelivery # {} THEN <<"CancelOrder">> ELSE <<>>
        lookup == <<"DeactivateOldDeliveries", "GetActiveByOrderID">> \o cancel
        answer(err, calls) ==
            [op |-> "ReassignPorterDelivery", err |-> err, events |-> <<>>, calls |-> calls]
    IN  /\ UNCHANGED <<payments, refunds, tasks, requests>>
        /\ IF ~Live(o)
           THEN /\ ret' = answer("Order not found", <<>>)
                /\ UNCHANGED <<orders, deliveries>>
           ELSE IF failure = "handler_deactivate"
           THEN /\ ret' = answer("Failed to deactivate old deliveries",
                                 <<"DeactivateOldDeliveries">>)
                /\ UNCHANGED <<orders, deliveries>>
           ELSE IF failure = "service_deactivate"
           THEN /\ ret' = answer("Failed to reassign Porter delivery: failed to deactivate old deliveries",
                                 lookup \o <<"DeactivateOldDeliveries">>)
                /\ deliveries' = deactivated
                /\ UNCHANGED orders
           ELSE /\ outcome = "porter" => Len(orders[o].order_logs) < MaxLogs
                /\ ret' = answer(IF outcome = "failed"
                                 THEN "Failed to reassign Porter delivery: failed to create delivery order"
                                 ELSE "",
                                 lookup \o lookup \o <<"CreateDeliveryOrder">>)
                /\ deliveries' = deactivated
                /\ orders' = CreateDeliveryOrder(o, orders[o], outcome)

\* the other handlers of the order among the webhooks
HookCreateOrder(o, restaurantID) == CreateOrder(o, restaurantID) /\ UNCHANGED requests
HookUpdateOrderStatus(o, newStatus, restaurantID) ==
    UpdateOrderStatus(o, newStatus, restaurantID) /\ UNCHANGED requests
HookDeliveryCreate(d, o) == PorterDeliveryCreate(d, o) /\ UNCHANGED requests

HookInit ==
    /\ OrderInit /\ SchedIdle /\ TableIdle /\ ShopIdle
    /\ requests = [q \in HookIds |-> NoHook]

HookNext ==
    \/ RaceFrame /\ \E o \in OrderIds, r \in OrderRestaurantIds : HookCreateOrder(o, r)
    \/ RaceFrame /\ \E o \in OrderIds, st \in RequestedStatuses, r \in OrderRestaurantIds :
                       HookUpdateOrderStatus(o, st, r)
    \/ RaceFrame /\ \E d \in DeliveryIds, o \in OrderIds : HookDeliveryCreate(d, o)
    \/ RaceFrame /\ \E q \in HookIds, d \in DeliveryIds, st \in PorterStatuses :
                       HookRead(q, d, st)
    \/ RaceFrame /\ \E q \in HookIds, failure \in HandleWebhookFailures :
                       HookHandle(q, failure)
    \/ RaceFrame /\ \E q \in HookIds, ok \in BOOLEAN, outcome \in DispatchOutcomes :
                       ReassignRun(q, ok, outcome)
    \/ RaceFrame /\ \E o \in OrderIds, failure \in ReassignFailures,
                       outcome \in DispatchOutcomes :
                       ReassignPorterDelivery(o, failure, outcome)

HookSpec == HookInit /\ [][HookNext]_vars

(***************************************************************************)
(* ProductSpec: GetProductsByTimeAdvanced for one product of a restaurant: *)
(* whether the response lists the product, and the availability and the    *)
(* reason it reports for it.                                               *)
(***************************************************************************)
\* time groups a product may belong to
MaxGroups == 2

\* start_time and end_time of the modelled groups
GroupTimes == {Format1504(9, 0), Format1504(22, 0)}

\* models.TimeRangeProductsGroup: the columns the availability reads
TimeGroups == [is_active : BOOLEAN, start_time : GroupTimes, end_time : GroupTimes]

\* the sets of groups a product is an item of
GroupMemberships == {gs \in SUBSET TimeGroups : Cardinality(gs) <= MaxGroups}

\* models.Product: the one column the availability reads
Products == [is_available : BOOLEAN]

\* GetProductsByTimeRequest.Availability: absent, true, false; the request
\* names no tags and no price range
AvailabilityFilters == {"nil", "true", "false"}

\* timeRangeProductRepository.GetTimeGroupsByRestaurant: the active groups
GetTimeGroupsByRestaurant(groups) == {g \in groups : g.is_active}

\* timeRangeProductRepository.GetActiveProductsByTime, its $match stage on
\* one group
MatchesActiveGroup(g, currentTime) ==
    /\ g.is_active
    /\ StrLeq(g.start_time, currentTime)
    /\ StrLeq(currentTime, g.end_time)

\* TimeBasedProductService.isTimeInRange
IsTimeInRange(checkTime, startTime, endTime) ==
    IF StrLess(endTime, startTime)
    THEN StrLeq(startTime, checkTime) \/ StrLeq(checkTime, endTime)
    ELSE StrLeq(startTime, checkTime) /\ StrLeq(checkTime, endTime)

\* TimeBasedProductService.isProductAvailable
IsProductAvailable(product, timeGroups, targetTime, restaurantIsOpen) ==
    LET targetTimeStr == Format1504(targetTime.hour, targetTime.minute)
    IN  IF ~restaurantIsOpen THEN FALSE
        ELSE IF ~product.is_available THEN FALSE
        ELSE IF timeGroups = {} THEN TRUE
        ELSE \E group \in timeGroups :
                group.is_active /\ IsTimeInRange(targetTimeStr, group.start_time, group.end_time)

\* TimeBasedProductService.getUnavailabilityReason
GetUnavailabilityReason(product, timeGroups, targetTime, restaurantIsOpen) ==
    IF ~restaurantIsOpen THEN "Restaurant is closed"
    ELSE IF ~product.is_available THEN "Product is currently unavailable"
    ELSE IF timeGroups # {} THEN "Product not available at this time"
    ELSE "Unknown reason"

\* TimeBasedProductService.applyFilters on one product: whether it is kept.
\* active: the product is among activeProductIDs; anyActive: the list is not
\* empty
ApplyFilters(product, active, anyActive, availability) ==
    /\ ~(anyActive /\ ~active)
    /\ availability = "true" => product.is_available
    /\ availability = "false" => ~product.is_available

\* GetProductsByTimeAdvanced, the entry of the product in productInfos.
\* groups: the groups the product is an item of; otherActive: another product
\* of the restaurant is in a group that matches the time
GetProductsByTimeAdvanced(restaurantIsOpen, product, groups, otherActive, availability, targetTime) ==
    LET timeStr == Format1504(targetTime.hour, targetTime.minute)
        timeGroups == GetTimeGroupsByRestaurant(groups)
        active == \E g \in groups : MatchesActiveGroup(g, timeStr)
        listed == ApplyFilters(product, active, active \/ otherActive, availability)
        isAvailable == IsProductAvailable(product, timeGroups, targetTime, restaurantIsOpen)
    IN  /\ probe = NoProbe
        /\ probe' = [table |-> "product", restaurantIsOpen |-> restaurantIsOpen,
                     product |-> product, groups |-> groups, otherActive |-> otherActive,
                     availability |-> availability, at |-> targetTime,
                     listed |-> listed,
                     is_available |-> listed /\ isAvailable,
                     reason |-> IF listed /\ ~isAvailable
                                THEN GetUnavailabilityReason(product, timeGroups, targetTime,
                                                             restaurantIsOpen)
                                ELSE ""]

ProductInit == OrderInit /\ RaceIdle /\ SchedIdle /\ ShopIdle /\ probe = NoProbe

ProductNext ==
    TableFrame /\ \E restaurantIsOpen \in BOOLEAN, product \in Products,
                     groups \in GroupMemberships, otherActive \in BOOLEAN,
                     availability \in AvailabilityFilters, at \in Instants :
                     GetProductsByTimeAdvanced(restaurantIsOpen, product, groups, otherActive,
                                               availability, at)

ProductSpec == ProductInit /\ [][ProductNext]_vars

(***************************************************************************)
(* CronSpec: the life of the scheduler.  StartAutomaticStatusManagement    *)
(* and StopAutomaticStatusManagement are the two HTTP handlers, one call   *)
(* at a time; the goroutines they start run between the calls.  A          *)
(* goroutine is in its select: it takes its ticker when the ticker has     *)
(* fired, it returns when it finds stopChan closed.  The tables hold       *)
(* active auto-managed restaurants with day hours, which every tick visits.*)
(***************************************************************************)
\* running: isRunning as the call found it
CronReturn(op, err) ==
    [op |-> op, err |-> err, events |-> <<>>, running |-> cron.isRunning]

\* Stop without the isRunning test
StopClosesUnconditionally ==
    /\ IF cron.stopChan = "closed"
       THEN /\ ret' = CronReturn("StopAutomaticStatusManagement",
                                 "panic: close of closed channel")
            /\ UNCHANGED cron
       ELSE /\ ret' = CronReturn("StopAutomaticStatusManagement", "")
            /\ cron' = [cron EXCEPT !.stopChan = "closed", !.isRunning = FALSE]
    /\ UNCHANGED <<restaurants, tick>>

\* EnhancedCronService.StartAutomaticStatusManagement
StartAutomaticStatusManagement ==
    /\ IF cron.isRunning
       THEN /\ ret' = CronReturn("StartAutomaticStatusManagement",
                                 "cron service is already running")
            /\ UNCHANGED cron
       ELSE /\ ret' = CronReturn("StartAutomaticStatusManagement", "")
            /\ cron' = [cron EXCEPT !.isRunning = TRUE,
                                    !.live = [k \in GoroutineKinds |-> cron.live[k] + 1]]
    /\ UNCHANGED <<restaurants, tick>>

\* EnhancedCronService.StopAutomaticStatusManagement.  close() of a closed
\* channel panics; gin's Recovery middleware turns the panic into a 500 and
\* isRunning is left true
StopAutomaticStatusManagement ==
    /\ IF ~cron.isRunning
       THEN /\ ret' = CronReturn("StopAutomaticStatusManagement", "")
            /\ UNCHANGED cron
       ELSE IF cron.stopChan = "closed"
       THEN /\ ret' = CronReturn("StopAutomaticStatusManagement",
                                 "panic: close of closed channel")
            /\ UNCHANGED cron
       ELSE /\ ret' = CronReturn("StopAutomaticStatusManagement", "")
            /\ cron' = [cron EXCEPT !.stopChan = "closed", !.isRunning = FALSE]
    /\ UNCHANGED <<restaurants, tick>>

\* runStatusUpdateTicker, case <-ticker.C
RunStatusUpdateTicker(checkTime, searchFails, failingRow) ==
    /\ cron.live["status"] > 0
    /\ UpdateAllRestaurantStatuses(checkTime, searchFails, failingRow)
    /\ UNCHANGED <<cron, ret>>

\* runMaintenanceTicker, case <-ticker.C: performMaintenanceTasks only logs
RunMaintenanceTicker ==
    /\ cron.live["maintenance"] > 0
    /\ UNCHANGED <<restaurants, tick, cron, ret>>

\* runDailyReportTicker, case <-timer.C: generateDailyReports only logs
RunDailyReportTicker ==
    /\ cron.live["daily"] > 0
    /\ UNCHANGED <<restaurants, tick, cron, ret>>

\* case <-s.stopChan of the three goroutines: return
GoroutineReturns(kind) ==
    /\ cron.live[kind] > 0
    /\ cron.stopChan = "closed"
    /\ cron' = [cron EXCEPT !.live[kind] = cron.live[kind] - 1]
    /\ UNCHANGED <<restaurants, tick, ret>>

CronInit ==
    /\ OrderInit /\ RaceIdle /\ TableIdle /\ ShopIdle
    /\ restaurants \in TablesOfLength(NumRestaurants)
    /\ \A i \in 1..Len(restaurants) :
          /\ restaurants[i].auto_open_close
          /\ restaurants[i].status = "active"
          /\ restaurants[i].opening_hours = DayShift
    /\ tick = NoTick

CronFrame ==
    UNCHANGED <<orders, payments, refunds, deliveries, tasks, requests, probe, cache>>

CronNext ==
    \/ CronFrame /\ StartAutomaticStatusManagement
    \/ CronFrame /\ StopAutomaticStatusManagement
    \/ CronFrame /\ \E at \in Instants, failingRow \in 0..NumRestaurants :
                       RunStatusUpdateTicker(at, FALSE, failingRow)
    \/ CronFrame /\ \E at \in Instants : RunStatusUpdateTicker(at, TRUE, 0)
    \/ CronFrame /\ RunMaintenanceTicker
    \/ CronFrame /\ RunDailyReportTicker
    \/ CronFrame /\ \E kind \in GoroutineKinds : GoroutineReturns(kind)

CronSpec == CronInit /\ [][CronNext]_vars

\* FairCronSpec: the Go scheduler runs every runnable goroutine, and a
\* closed channel is ready in every select, so a goroutine that can return
\* on stopChan does not wait forever
FairCronSpec ==
    /\ CronSpec
    /\ \A kind \in GoroutineKinds : WF_vars(CronFrame /\ GoroutineReturns(kind))

(***************************************************************************)
(* StartSpec: two StartAutomaticStatusManagement calls that arrive         *)
(* together on a scheduler that was never started.  isRunning is a plain   *)
(* bool that the calls read and write outside the mutex, so each call is   *)
(* its read and its write; the read of a call may miss the write of the    *)
(* other call, which no synchronisation orders before it.                  *)
(***************************************************************************)
StartIds == {"s1", "s2"}
NoStart == [pc |-> "idle", err |-> ""]

\* StartAutomaticStatusManagement, if s.isRunning { return fmt.Errorf(...) }
StartCheck(q, seen) ==
    /\ requests[q].pc = "idle"
    /\ seen \in {cron.isRunning, FALSE}
    /\ requests' = [requests EXCEPT ![q] =
          IF seen THEN [pc |-> "done", err |-> "cron service is already running"]
                  ELSE [pc |-> "checked", err |-> ""]]
    /\ UNCHANGED <<cron, restaurants, tick, ret>>

\* StartAutomaticStatusManagement, s.isRunning = true, the three go
\* statements and return nil
StartSet(q) ==
    /\ requests[q].pc = "checked"
    /\ cron' = [cron EXCEPT !.isRunning = TRUE,
                            !.live = [k \in GoroutineKinds |-> cron.live[k] + 1]]
    /\ requests' = [requests EXCEPT ![q] = [pc |-> "done", err |-> ""]]
    /\ ret' = [op |-> "StartAutomaticStatusManagement", err |-> "",
               events |-> <<>>, running |-> TRUE]
    /\ UNCHANGED <<restaurants, tick>>

StartInit ==
    /\ OrderInit /\ TableIdle /\ ShopIdle
    /\ requests = [q \in StartIds |-> NoStart]
    /\ restaurants \in TablesOfLength(NumRestaurants)
    /\ \A i \in 1..Len(restaurants) :
          /\ restaurants[i].auto_open_close
          /\ restaurants[i].status = "active"
          /\ restaurants[i].opening_hours = DayShift
    /\ tick = NoTick

StartFrame == UNCHANGED <<orders, payments, refunds, deliveries, tasks, probe, cache>>

StartNext ==
    \/ StartFrame /\ \E q \in StartIds, seen \in BOOLEAN : StartCheck(q, seen)
    \/ StartFrame /\ \E q \in StartIds : StartSet(q)
    \/ CronFrame /\ \E at \in Instants, failingRow \in 0..NumRestaurants :
                       RunStatusUpdateTicker(at, FALSE, failingRow)
    \/ CronFrame /\ \E at \in Instants : RunStatusUpdateTicker(at, TRUE, 0)

StartSpec == StartInit /\ [][StartNext]_vars

(***************************************************************************)
(* EvalSpec: the three open-or-closed evaluators of the code applied to    *)
(* one restaurant and one instant.  opening_hours is a JSON object keyed   *)
(* by day name; a key that is missing from a day entry and a key holding   *)
(* the empty string both read as "" in the code and are <<>> here.         *)
(***************************************************************************)
\* ShopTimeService.isRestaurantOpenAtTime
IsRestaurantOpenAtTime(restaurant, checkTime) ==
    LET currentDay == checkTime.weekday
        currentTimeStr == Format1504(checkTime.hour, checkTime.minute)
        entries == {e \in restaurant.opening_hours.days : e.day = currentDay}
        dayTiming == CHOOSE e \in entries : TRUE
    IN  IF ~restaurant.auto_open_close THEN restaurant.is_open
        ELSE IF restaurant.opening_hours.nil THEN restaurant.is_open
        ELSE IF entries = {} THEN FALSE
        ELSE IF ~dayTiming.is_open THEN FALSE
        ELSE IF dayTiming.open_time = <<>> \/ dayTiming.close_time = <<>>
        THEN restaurant.is_open
        ELSE /\ StrLeq(dayTiming.open_time, currentTimeStr)
             /\ StrLeq(currentTimeStr, dayTiming.close_time)

\* CronService.shouldRestaurantBeOpen
ShouldRestaurantBeOpen(restaurant, checkTime) ==
    LET currentDay == checkTime.weekday
        currentTimeStr == Format1504(checkTime.hour, checkTime.minute)
        entries == {e \in restaurant.opening_hours.days : e.day = currentDay}
        dayTiming == CHOOSE e \in entries : TRUE
    IN  IF ~restaurant.auto_open_close THEN restaurant.is_open
        ELSE IF restaurant.opening_hours.nil THEN restaurant.is_open
        ELSE IF entries = {} THEN FALSE
        ELSE IF ~dayTiming.is_open THEN FALSE
        ELSE IF dayTiming.open_time = <<>> \/ dayTiming.close_time = <<>>
        THEN restaurant.is_open
        ELSE IF StrLess(dayTiming.close_time, dayTiming.open_time)
        THEN \/ StrLeq(dayTiming.open_time, currentTimeStr)
             \/ StrLeq(currentTimeStr, dayTiming.close_time)
        ELSE /\ StrLeq(dayTiming.open_time, currentTimeStr)
             /\ StrLeq(currentTimeStr, dayTiming.close_time)

\* the stored time strings of the probes: none, and four zero-padded times
EvalTimes ==
    {<<>>, Format1504(4, 0), Format1504(9, 0), Format1504(17, 0), Format1504(22, 0)}

\* day entries keyed as the scheduler reads them, as the other two
\* evaluators read them, and for a day other than the probed one
EvalEntries ==
    [day : {"monday", "Monday", "tuesday"}, is_open : BOOLEAN,
     open_time : EvalTimes, close_time : EvalTimes]

\* a NULL column, an empty object, and the objects with one day entry
EvalHours ==
    {[nil |-> TRUE, days |-> {}], [nil |-> FALSE, days |-> {}]}
        \cup {[nil |-> FALSE, days |-> {e}] : e \in EvalEntries}

EvalRestaurants ==
    [auto_open_close : BOOLEAN, is_open : BOOLEAN, opening_hours : EvalHours]

EvalInstants ==
    {[weekday |-> "Monday", hour |-> 5, minute |-> 0],
     [weekday |-> "Monday", hour |-> 12, minute |-> 0],
     [weekday |-> "Monday", hour |-> 21, minute |-> 59],
     [weekday |-> "Monday", hour |-> 23, minute |-> 0]}

EvalScheduler(restaurant, checkTime) ==
    /\ probe = NoProbe
    /\ probe' = [table |-> "scheduler", restaurant |-> restaurant, at |-> checkTime,
                 open |-> ShouldRestaurantBeOpenAtTime(restaurant, checkTime)]

EvalShopTime(restaurant, checkTime) ==
    /\ probe = NoProbe
    /\ probe' = [table |-> "shop_time", restaurant |-> restaurant, at |-> checkTime,
                 open |-> IsRestaurantOpenAtTime(restaurant, checkTime)]

EvalLegacyCron(restaurant, checkTime) ==
    /\ probe = NoProbe
    /\ probe' = [table |-> "legacy_cron", restaurant |-> restaurant, at |-> checkTime,
                 open |-> ShouldRestaurantBeOpen(restaurant, checkTime)]

EvalInit == OrderInit /\ RaceIdle /\ SchedIdle /\ ShopIdle /\ probe = NoProbe

EvalNext ==
    \/ TableFrame /\ \E r \in EvalRestaurants, at \in EvalInstants : EvalScheduler(r, at)
    \/ TableFrame /\ \E r \in EvalRestaurants, at \in EvalInstants : EvalShopTime(r, at)
    \/ TableFrame /\ \E r \in EvalRestaurants, at \in EvalInstants : EvalLegacyCron(r, at)

EvalSpec == EvalInit /\ [][EvalNext]_vars

(***************************************************************************)
(* Properties.  The pairs below are the transitions the specification      *)
(* lists in its section 4.1, written out independently of the tables of    *)
(* the code.                                                               *)
(***************************************************************************)
ListedOrderPairs ==
    {<<"pending", "confirmed">>, <<"pending", "cancelled">>,
     <<"confirmed", "preparing">>, <<"confirmed", "cancelled">>,
     <<"preparing", "dispatched">>, <<"preparing", "cancelled">>,
     <<"dispatched", "delivered">>, <<"dispatched", "cancelled">>}

ListedRefundPairs ==
    {<<"pending", "approved">>, <<"pending", "rejected">>,
     <<"approved", "processed">>, <<"approved", "failed">>,
     <<"failed", "approved">>}

IsPrefix(s, t) == Len(s) <= Len(t) /\ SubSeq(t, 1, Len(s)) = s

\* the order row is there before and after the step and its status differs
StatusChanged(o) ==
    /\ Live(o)
    /\ orders'[o].life = "live"
    /\ orders'[o].order_status # orders[o].order_status

\* the step is one of the four status-writing operations
StatusWritingStep ==
    \/ \E o \in OrderIds, st \in RequestedStatuses, r \in RestaurantIds : UpdateOrderStatus(o, st, r)
    \/ \E d \in DeliveryIds, st \in PorterStatuses : PorterWebhook(d, st)
    \/ \E o \in OrderIds : HandlePaymentSuccess(o)
    \/ \E o \in OrderIds, st \in PaymentWebhookStatuses : ProcessWebhook(o, st)

\* C1: every change of an order's persisted status made by UpdateOrderStatus,
\* the Porter webhook, handlePaymentSuccess or ProcessWebhook is a transition
\* the order table lists.
C1_OrderChangesFollowTable ==
    [][StatusWritingStep =>
         \A o \in OrderIds :
            StatusChanged(o) =>
               <<orders[o].order_status, orders'[o].order_status>> \in ListedOrderPairs]_vars

\* C2: an order whose persisted status is delivered or cancelled keeps that
\* status, and a refund whose persisted status is rejected or processed keeps
\* that status, whatever operation comes next.
C2_TerminalStatusesStay ==
    [][\A o \in OrderIds :
          /\ (Live(o) /\ orders'[o].life = "live"
                /\ orders[o].order_status \in {"delivered", "cancelled"})
                => orders'[o].order_status = orders[o].order_status
          /\ (refunds[o].exists /\ refunds[o].status \in {"rejected", "processed"})
                => refunds'[o].status = refunds[o].status]_vars

\* C3: OrderService.isValidStatusTransition answers true exactly for the
\* eight listed pairs and false for every other pair of strings, and a
\* lookup changes nothing but its own result.
C3_OrderTableExact ==
    probe.table = "order" =>
        /\ probe.valid <=> (<<probe.current, probe.requested>> \in ListedOrderPairs)
        /\ orders = [o \in OrderIds |-> NoOrder]
        /\ ret = NoRet

\* a lookup of a status the table does not know was answered
C3_Witness ==
    /\ probe.table = "order"
    /\ probe.current = "pending_payment"
    /\ probe.requested = "confirmed"
    /\ ~probe.valid

\* the refund table of the code against the listed pairs, on every pair of
\* strings a lookup may be given
RefundTableIsListed ==
    \A c \in ProbeStatuses, r \in ProbeStatuses :
        RefundIsValidStatusTransition(c, r) <=> <<c, r>> \in ListedRefundPairs

C5_RejectionChangesNothing ==
    [][/\ ret'.op = "UpdateOrderStatus" =>
            \A o \in OrderIds, st \in RequestedStatuses, r \in RestaurantIds :
               (UpdateOrderStatus(o, st, r)
                  /\ <<orders[o].order_status, st>> \notin ListedOrderPairs)
                  => /\ ret' = Return("UpdateOrderStatus", ErrInvalidTransition)
                     /\ ret'.events = <<>>
                     /\ orders' = orders
       /\ ret'.op = "UpdateRefundStatus" =>
            \A o \in OrderIds, st \in RequestedRefundStatuses, c \in {"", "comment"} :
               (UpdateRefundStatus(o, st, c)
                  /\ <<refunds[o].status, st>> \notin ListedRefundPairs)
                  => /\ ret' = Return("UpdateRefundStatus", ErrInvalidTransition)
                     /\ ret'.events = <<>>
                     /\ refunds' = refunds
       /\ (ret' # ret /\ ret'.err = ErrInvalidTransition)
               => /\ orders' = orders
                  /\ refunds' = refunds
                  /\ ret'.events = <<>>]_vars

\* UpdateOrderStatus has rejected a request on an order that carries a log
\* entry
C5_Witness ==
    \E o \in OrderIds :
        /\ ret = Return("UpdateOrderStatus", ErrInvalidTransition)
        /\ Live(o)
        /\ Len(orders[o].order_logs) > 0

\* C6: of two UpdateOrderStatus requests on one order that read the same
\* status before either saved, at most one returns success.
C6_RaceHasOneWinner ==
    \A a \in RequestIds, b \in RequestIds :
        (/\ a # b
         /\ requests[a].pc = "done" /\ requests[b].pc = "done"
         /\ requests[a].order = requests[b].order
         /\ requests[a].read.order_status = requests[b].read.order_status)
            => ~(requests[a].err = "" /\ requests[b].err = "")

\* C7: a step that changes an order's persisted status appends exactly one
\* entry, carrying the new status, to its order_logs in the same write.
C7_StatusChangeAppendsOneLog ==
    [][\A o \in OrderIds :
          StatusChanged(o) =>
             /\ Len(orders'[o].order_logs) = Len(orders[o].order_logs) + 1
             /\ IsPrefix(orders[o].order_logs, orders'[o].order_logs)
             /\ orders'[o].order_logs[Len(orders'[o].order_logs)].status
                   = orders'[o].order_status]_vars

\* C8: order_logs is append-only: the entries an order holds before a step
\* are a prefix of the entries it holds after it.
C8_LogsAppendOnly ==
    [][\A o \in OrderIds :
          (Live(o) /\ orders'[o].life = "live")
             => IsPrefix(orders[o].order_logs, orders'[o].order_logs)]_vars

\* C9: an order row, once created, stays, and its user_id, restaurant_id and
\* cart_id never change.
C9_OrdersNeverDestroyed ==
    [][\A o \in OrderIds :
          Live(o) =>
             /\ orders'[o].life = "live"
             /\ orders'[o].user_id = orders[o].user_id
             /\ orders'[o].restaurant_id = orders[o].restaurant_id
             /\ orders'[o].cart_id = orders[o].cart_id]_vars

\* C10: after a tick that met no repository error, every restaurant with
\* auto_open_close = true has is_open equal to what the evaluator answers
\* for the instant of the tick.
C10_TickSynchronisesAutoManaged ==
    (tick.ran /\ ~tick.error) =>
        \A i \in 1..Len(restaurants) :
            restaurants[i].auto_open_close =>
                restaurants[i].is_open = ShouldRestaurantBeOpenAtTime(restaurants[i], tick.at)


(***************************************************************************)
(* The evaluators (EvalSpec).                                              *)
(***************************************************************************)
\* the key under which the probed evaluator looks the weekday up
ProbedDayKey ==
    IF probe.table = "scheduler" THEN ToLower(probe.at.weekday) ELSE probe.at.weekday

ProbedDayEntries == {e \in probe.restaurant.opening_hours.days : e.day = ProbedDayKey}

\* a zero-padded HH:MM string as minutes since midnight
MinutesOf(hhmm) == (hhmm[1] * 10 + hhmm[2]) * 60 + hhmm[4] * 10 + hhmm[5]

\* section 4.2 of the specification: the overnight window and the same-day
\* window, on the times as numbers
InListedWindow(open, close, time) ==
    \/ close < open /\ (time >= open \/ time <= close)
    \/ close >= open /\ open <= time /\ time <= close

\* C11: for an auto-managed restaurant whose entry for the day has
\* is_open=true and both times, the scheduler's evaluator answers open exactly
\* when the time of day lies in the window, the window running over midnight
\* when close_time is before open_time
C11_WindowRule ==
    (probe.table = "scheduler" /\ probe.restaurant.auto_open_close) =>
        \A e \in ProbedDayEntries :
            (e.is_open /\ e.open_time # <<>> /\ e.close_time # <<>>) =>
                (probe.open <=> InListedWindow(MinutesOf(e.open_time), MinutesOf(e.close_time),
                                               probe.at.hour * 60 + probe.at.minute))

\* monday 22:00-04:00 probed at Monday 23:00 is open
C11_Witness ==
    /\ probe.table = "scheduler"
    /\ probe.restaurant.auto_open_close
    /\ probe.restaurant.opening_hours.days =
           {[day |-> "monday", is_open |-> TRUE,
             open_time |-> Format1504(22, 0), close_time |-> Format1504(4, 0)]}
    /\ probe.at = [weekday |-> "Monday", hour |-> 23, minute |-> 0]
    /\ probe.open

\* C12: with no entry for the weekday, or an entry with is_open=false, the
\* evaluator answers closed, whatever auto_open_close and is_open are
C12_NoEntryOrClosedDayIsClosed ==
    (probe.table \in {"scheduler", "shop_time"}) =>
        ((\A e \in ProbedDayEntries : ~e.is_open) => ~probe.open)

\* C13: with is_open=true for the day and open_time or close_time missing
\* or empty, the evaluator answers the restaurant's own is_open
C13_MissingTimeFallsBackToFlag ==
    (probe.table \in {"scheduler", "legacy_cron"}) =>
        \A e \in ProbedDayEntries :
            (e.is_open /\ (e.open_time = <<>> \/ e.close_time = <<>>)) =>
                (probe.open <=> probe.restaurant.is_open)

C15_FlipStampsLastStatusUpdate ==
    [][\A i \in 1..Len(restaurants) :
          /\ restaurants'[i].is_open # restaurants[i].is_open =>
                 restaurants'[i].last_status_update = ret'.now
          /\ (/\ ret'.op = "updateAllRestaurantStatuses"
              /\ restaurants[i].is_open =
                     ShouldRestaurantBeOpenAtTime(restaurants[i], ret'.now)) =>
                 restaurants'[i] = restaurants[i]]_vars

\* what one tick at the instant now makes of a restaurant it visits
RowAfterTick(row, now) ==
    IF /\ row.auto_open_close /\ row.status = "active"
       /\ row.is_open # ShouldRestaurantBeOpenAtTime(row, now)
    THEN [row EXCEPT !.is_open = ShouldRestaurantBeOpenAtTime(row, now),
                     !.last_status_update = now]
    ELSE row

\* C20: a ForceStatusUpdate that returns no error leaves the restaurant as
\* one tick at that instant would (is_open the evaluator's output, stamped
\* if it flipped, status and the other columns as they were); one for an
\* unknown id returns restaurant not found and leaves the table as it was
C20_ForceActsAsOneTick ==
    [][ret'.op = "ForceStatusUpdate" =>
         LET i == RowOf(restaurants, ret'.restaurant)
         IN  /\ (UuidParses(ret'.restaurant) /\ i = 0) =>
                    (ret'.err = "restaurant not found" /\ restaurants' = restaurants)
             /\ (i # 0 /\ ret'.err = "") =>
                    restaurants'[i] = RowAfterTick(restaurants[i], ret'.now)]_vars

(***************************************************************************)
(* The cached reads (CacheSpec).                                           *)
(***************************************************************************)
\* C19: the only writer being the tick, a read through the cache that
\* returns a restaurant returns the is_open the table holds at that moment,
\* never the value from before a flip
C19_ReadAfterTickIsFresh ==
    [][(ret'.op \in {"GetShopTiming", "getRestaurantTimeStatus"} /\ ret'.err = "") =>
         LET i == RowOf(restaurants, ret'.restaurant)
         IN  i # 0 /\ ret'.result.is_open = restaurants[i].is_open]_vars

(***************************************************************************)
(* The life of the scheduler (CronSpec, FairCronSpec).                     *)
(***************************************************************************)
\* C16: when a tick finds the restaurants and the Update of one restaurant
\* fails, every other restaurant is left as a tick leaves it (is_open the
\* evaluator's output, stamped if it flipped), the goroutines are as they
\* were, and a status goroutine returns only once stopChan is closed
C16_FailureIsolation ==
    [][/\ (cron' = cron /\ ret' = ret /\ cron.live["status"] > 0 /\ tick'.error) =>
            \A failingRow \in 1..NumRestaurants :
                UpdateAllRestaurantStatuses(tick'.at, FALSE, failingRow) =>
                    \A i \in 1..Len(restaurants) \ {failingRow} :
                        restaurants'[i] = RowAfterTick(restaurants[i], tick'.at)
       /\ cron'.live["status"] < cron.live["status"] => cron.stopChan = "closed"]_vars

\* a tick at Monday 12:00 met a failing Update: one restaurant is still
\* closed, another was opened by that tick, and the status goroutine lives
C16_Witness ==
    /\ tick.ran /\ tick.error
    /\ tick.at = [weekday |-> "Monday", hour |-> 12, minute |-> 0]
    /\ cron.live["status"] > 0
    /\ \E i, j \in 1..Len(restaurants) :
          /\ ~restaurants[i].is_open
          /\ restaurants[j].is_open
          /\ restaurants[j].last_status_update = tick.at

\* no goroutine is about to return
CronQuiescent ==
    cron.stopChan = "open" \/ \A kind \in GoroutineKinds : cron.live[kind] = 0

\* C17: a Start that finds the scheduler running returns the already-running
\* error and leaves the scheduler as it was, and while isRunning is true there
\* is exactly one status-update goroutine (counted when none is returning)
C17_OneTickerWhileRunning ==
    [][/\ (cron.isRunning /\ StartAutomaticStatusManagement) =>
            (ret'.err = "cron service is already running" /\ cron' = cron)
       /\ (cron'.isRunning /\ CronQuiescent') => cron'.live["status"] = 1]_vars

\* C18: a Stop that finds the scheduler not running returns without a panic
\* and changes neither the scheduler nor the table; and once stopChan is
\* closed every goroutine eventually has returned
C18_StopIdempotent ==
    /\ [][(~cron.isRunning /\ StopAutomaticStatusManagement) =>
             (ret'.err = "" /\ cron' = cron /\ restaurants' = restaurants)]_vars
    /\ (cron.stopChan = "closed") ~> (\A kind \in GoroutineKinds : cron.live[kind] = 0)

\* a Stop has found the scheduler stopped by an earlier Stop, and the
\* goroutines of the earlier run have returned
C18_Witness ==
    /\ ret.op = "StopAutomaticStatusManagement" /\ ~ret.running /\ ret.err = ""
    /\ cron.stopChan = "closed" /\ ~cron.isRunning
    /\ \A kind \in GoroutineKinds : cron.live[kind] = 0

(***************************************************************************)
(* Manual updates against a tick under way.                                *)
(***************************************************************************)
\* C21: a write of the tick leaves opening_hours and auto_open_close of
\* every restaurant as they are in the table when it writes, so the values
\* a manual update persisted after the tick's read are still there after the
\* tick's write; the tick decides is_open and last_status_update only.
C21_TickKeepsManualTiming ==
    [][\A updateFails \in BOOLEAN :
          TickUpdate(updateFails) =>
              \A i \in 1..Len(restaurants) :
                  /\ restaurants'[i].opening_hours = restaurants[i].opening_hours
                  /\ restaurants'[i].auto_open_close = restaurants[i].auto_open_close]_vars

(***************************************************************************)
(* Carrier webhooks and reassignment.                                      *)
(***************************************************************************)
\* the goroutines a webhook request has started
ReassignmentsStarted(hook) == IF hook.go = "none" THEN 0 ELSE 1

\* C22: a webhook that is processed successfully starts the reassignment
\* goroutine exactly once when its status is order_cancel and the order
\* status the handler read before the status sync was not cancelled, and
\* starts none otherwise; the goroutine invokes ReassignDeliveryPartner once
\* (running, then returned), and a webhook that is not processed
\* successfully starts none.
C22_ReassignOnCarrierCancelOnly ==
    /\ [] \A q \in HookIds :
          LET hook == requests[q]
              voluntary == hook.status = "order_cancel"
                           /\ hook.originalOrderStatus # "cancelled"
          IN  /\ (hook.pc = "done" /\ hook.err = "") =>
                    /\ ReassignmentsStarted(hook) = (IF voluntary THEN 1 ELSE 0)
                    /\ hook.reassignment_triggered = voluntary
              /\ (hook.pc # "done" \/ hook.err # "") => ReassignmentsStarted(hook) = 0
    /\ [][\A q \in HookIds :
            /\ ReassignmentsStarted(requests'[q]) >= ReassignmentsStarted(requests[q])
            /\ requests[q].go = "returned" => requests'[q].go = "returned"]_vars

\* a carrier cancellation of a dispatched order has started its reassignment
\* and the goroutine has returned
C22_Witness ==
    \E q \in HookIds :
        /\ requests[q].pc = "done" /\ requests[q].err = ""
        /\ requests[q].status = "order_cancel"
        /\ requests[q].originalOrderStatus = "dispatched"
        /\ requests[q].reassignment_triggered
        /\ requests[q].go = "returned"

\* a step in which the goroutine of webhook q returns from
\* ReassignDeliveryPartner with a nil error
ReassignCompletes(q) ==
    /\ requests[q].go = "running"
    /\ requests'[q].go = "returned"
    /\ requests'[q].reassignErr = ""

\* C23: an order never has two active delivery rows, and a reassignment
\* that completes successfully leaves the order with exactly one active
\* row, a row that did not exist before, while the row that was active
\* before is still there with is_active=false.
C23_ReassignLeavesOneNewActiveRow ==
    /\ [] \A o \in OrderIds : Cardinality(GetActiveByOrderID(deliveries, o)) <= 1
    /\ [][\A q \in HookIds :
            ReassignCompletes(q) =>
                LET o == requests[q].order
                    before == GetActiveByOrderID(deliveries, o)
                    after == GetActiveByOrderID(deliveries', o)
                IN  /\ Cardinality(after) = 1
                    /\ \A d \in after : ~deliveries[d].exists
                    /\ \A d \in before : deliveries'[d].exists /\ ~deliveries'[d].is_active]_vars

(***************************************************************************)
(* Product availability.                                                   *)
(***************************************************************************)
\* section 4.2, step 4: the product is available when the restaurant is open
\* and it has no group or the time lies in the window of an active group
ListedAvailability(restaurantIsOpen, groups, time) ==
    /\ restaurantIsOpen
    /\ \/ groups = {}
       \/ \E g \in groups :
             /\ g.is_active
             /\ InListedWindow(MinutesOf(g.start_time), MinutesOf(g.end_time), time)

\* C24: the availability reported for a product is the one of the rule:
\* unavailable with reason "Restaurant is closed" when the restaurant is
\* closed; available when the restaurant is open and the product is in no
\* group; with groups, available exactly when the time lies in the window of
\* an active group, else "Product not available at this time".  Stated for
\* the products whose own is_available flag is set and for requests without
\* an availability filter.
C24_ProductAvailabilityRule ==
    (probe.table = "product" /\ probe.availability = "nil" /\ probe.product.is_available) =>
        LET available == ListedAvailability(probe.restaurantIsOpen, probe.groups,
                                            probe.at.hour * 60 + probe.at.minute)
        IN  /\ probe.listed
            /\ probe.is_available = available
            /\ ~available =>
                  probe.reason = IF ~probe.restaurantIsOpen THEN "Restaurant is closed"
                                 ELSE "Product not available at this time"

\* calls holds a, then b, in this order
CallsInOrder(calls, a, b) ==
    \E i, j \in 1..Len(calls) : i < j /\ calls[i] = a /\ calls[j] = b

\* what C25 asks of one reassignment run over the order o, given the calls
\* it made and whether its deactivation failed
ReassignmentRunsInOrder(o, calls, deactivateFailed) ==
    IF deactivateFailed
    THEN \A i \in 1..Len(calls) : calls[i] # "CreateDeliveryOrder"
    ELSE /\ CallsInOrder(calls, "DeactivateOldDeliveries", "CreateDeliveryOrder")
         /\ GetActiveByOrderID(deliveries, o) # {} =>
               /\ CallsInOrder(calls, "DeactivateOldDeliveries", "CancelOrder")
               /\ CallsInOrder(calls, "CancelOrder", "CreateDeliveryOrder")

\* C25: a reassignment run deactivates the active delivery rows of the
\* order, then attempts to cancel the carrier order of the delivery that was
\* active when it began, then invokes CreateDeliveryOrder; a failing
\* deactivation ends the run before CreateDeliveryOrder.
C25_ReassignStepsInOrder ==
    [][/\ \A q \in HookIds :
            (requests[q].go = "running" /\ requests'[q].go = "returned"
                /\ requests'[q].calls # <<>>) =>
                ReassignmentRunsInOrder(
                    requests[q].order, requests'[q].calls,
                    requests'[q].reassignErr = "failed to deactivate old deliveries")
       /\ \A o \in OrderIds, failure \in ReassignFailures, outcome \in DispatchOutcomes :
            (Live(o) /\ ReassignPorterDelivery(o, failure, outcome)) =>
                ReassignmentRunsInOrder(o, ret'.calls, failure # "none")]_vars


\* C26: when two StartAutomaticStatusManagement calls on a scheduler that was
\* never started have both returned, exactly one returned nil, the other
\* returned the already-running error, and at no time is there more than one
\* status-update ticker goroutine
C26_OneStartWins ==
    /\ cron.live["status"] <= 1
    /\ (\A q \in StartIds : requests[q].pc = "done") =>
          /\ Cardinality({q \in StartIds : requests[q].err = ""}) = 1
          /\ Cardinality({q \in StartIds :
                requests[q].err = "cron service is already running"}) = 1


\* C27: whenever isRunning is true a status-update goroutine is alive and
\* stopChan is open, so that the goroutine waits for the next tick instead of
\* returning; and a Stop that finds the scheduler running returns without a
\* panic and leaves it stopped
C27_SchedulerRestarts ==
    /\ [](cron.isRunning => (cron.live["status"] > 0 /\ cron.stopChan = "open"))
    /\ [][(cron.isRunning /\ StopAutomaticStatusManagement) =>
             (ret'.err = "" /\ ~cron'.isRunning)]_vars


\* the day names the scheduler looks up: the weekday in lower case
LowercaseDays == {"monday", "tuesday"}

\* C28: for a restaurant whose opening_hours are keyed by lowercase weekday
\* names, ShopTimeService.isRestaurantOpenAtTime answers what the scheduler's
\* shouldRestaurantBeOpenAtTime answers for the same restaurant and instant,
\* windows over midnight included
C28_EvaluatorsAgree ==
    (/\ probe.table = "shop_time"
     /\ \A e \in probe.restaurant.opening_hours.days : e.day \in LowercaseDays) =>
        (probe.open <=> ShouldRestaurantBeOpenAtTime(probe.restaurant, probe.at))


\* C29: the GetShopTiming that follows an UpdateShopStatus or an
\* UpdateShopTiming that returned no error for the same restaurant returns
\* the is_open, opening_hours and auto_open_close the update left in the
\* table, whether or not the key held a value before the update
C29_ReadAfterManualUpdateIsFresh ==
    [][\A id \in ShopRequestIds, now \in Instants :
          (/\ ret.op \in {"UpdateShopStatus", "UpdateShopTiming"}
           /\ ret.err = "" /\ ret.restaurant = id
           /\ GetShopTiming(id, now)) =>
              LET i == RowOf(restaurants, id)
              IN  /\ ret'.err = ""
                  /\ ret'.result.is_open = restaurants[i].is_open
                  /\ ret'.result.opening_hours = restaurants[i].opening_hours
                  /\ ret'.result.auto_open_close = restaurants[i].auto_open_close]_vars


\* the webhooks with status order_cancel for delivery d that started the
\* reassignment goroutine
CancelReassignments(d) ==
    {q \in HookIds : /\ requests[q].delivery = d
                     /\ requests[q].status = "order_cancel"
                     /\ requests[q].go # "none"}

\* C30: of the order_cancel webhooks that arrive for one delivery, one after
\* the other or together, at most one starts ReassignDeliveryPartner
C30_OneReassignmentPerCancel ==
    \A d \in DeliveryIds : Cardinality(CancelReassignments(d)) <= 1

====
